---- MODULE Spec2Model ----
(***************************************************************************)
(* A model of the ERP analysis pipeline: the schema detector and its gate, *)
(* the five domain analyzers, the insight / recommendation / risk engines, *)
(* the multi-file orchestrator and the data cleaner.                       *)
(*                                                                         *)
(* Text is modelled by TLA+ strings, taken apart character by character    *)
(* with Len, SubSeq and \o, so lower-casing, trimming, truncation and the  *)
(* column-name matching are computed the way the Python code computes      *)
(* them. The character set is ASCII.                                       *)
(***************************************************************************)
EXTENDS Integers, Sequences, FiniteSets, TLC

\* e with the value v bound to its parameter: v is computed first, and once
Let(v, e(_)) == IF v = v THEN e(v) ELSE e(v)

(***************************************************************************)
(* Python str helpers                                                      *)
(***************************************************************************)

UPPER == "ABCDEFGHIJKLMNOPQRSTUVWXYZ"
LOWER == "abcdefghijklmnopqrstuvwxyz"
DIGITS == "0123456789"

Ch(s, i) == SubSeq(s, i, i)

CharIn(c, alphabet) == \E i \in 1..Len(alphabet) : Ch(alphabet, i) = c

\* the lower-case letter of every upper-case letter, and the reverse
LowerOf == [c \in {Ch(UPPER, i) : i \in 1..Len(UPPER)} |->
              Ch(LOWER, CHOOSE i \in 1..Len(UPPER) : Ch(UPPER, i) = c)]
UpperOf == [c \in {Ch(LOWER, i) : i \in 1..Len(LOWER)} |->
              Ch(UPPER, CHOOSE i \in 1..Len(LOWER) : Ch(LOWER, i) = c)]

\* str.lower() on one character
LowerChar(c) == IF c \in DOMAIN LowerOf THEN LowerOf[c] ELSE c

\* str.upper() on one character
UpperChar(c) == IF c \in DOMAIN UpperOf THEN UpperOf[c] ELSE c

\* the characters the rewrite selected by mode changes
Rewrites(mode, c) ==
   CASE mode = "lower" -> c \in DOMAIN LowerOf
     [] mode = "upper" -> c \in DOMAIN UpperOf
     [] mode = "space_to_us" -> c = " "
     [] mode = "dash_to_us" -> c = "-"
     [] OTHER -> FALSE

RECURSIVE MapChars(_, _, _, _)
\* applies a per-character rewrite, selected by mode, to s[lo..hi], one
\* half after the other; a stretch with no character to rewrite is copied
MapChars(mode, s, lo, hi) ==
   IF lo > hi THEN ""
   ELSE IF \A i \in lo..hi : ~Rewrites(mode, Ch(s, i)) THEN SubSeq(s, lo, hi)
   ELSE IF lo = hi
   THEN Let(Ch(s, lo), LAMBDA c :
            CASE mode = "lower" -> LowerChar(c)
              [] mode = "upper" -> UpperChar(c)
              [] mode = "space_to_us" -> (IF c = " " THEN "_" ELSE c)
              [] mode = "dash_to_us" -> (IF c = "-" THEN "_" ELSE c)
              [] OTHER -> c)
   ELSE MapChars(mode, s, lo, (lo + hi) \div 2) \o MapChars(mode, s, (lo + hi) \div 2 + 1, hi)

\* str.lower()
Lower(s) == MapChars("lower", s, 1, Len(s))

\* str.upper()
Upper(s) == MapChars("upper", s, 1, Len(s))

\* the characters that occur in the compared strings, in code point order
ASCII == " &'-0123456789ABCDEFGHIJKLMNOPQRSTUVWXYZ_abcdefghijklmnopqrstuvwxyz"

\* the place of every character of ASCII in it
OrdOf == [c \in {Ch(ASCII, i) : i \in 1..Len(ASCII)} |->
            CHOOSE i \in 1..Len(ASCII) : Ch(ASCII, i) = c]

\* ord(c), for the order of two characters only
Ord(c) == IF c \in DOMAIN OrdOf THEN OrdOf[c] ELSE 0

\* s < t on Python strings: decided at the first position where they
\* differ, or by the lengths when one is a prefix of the other
StrLess(s, t) ==
   IF s = t THEN FALSE
   ELSE Let(IF Len(s) < Len(t) THEN Len(s) ELSE Len(t), LAMBDA shorter :
        Let(CHOOSE i \in 1..(shorter + 1) :
               /\ SubSeq(s, 1, i - 1) = SubSeq(t, 1, i - 1)
               /\ (i > shorter \/ Ch(s, i) # Ch(t, i)), LAMBDA first :
           IF first > shorter THEN Len(s) < Len(t)
           ELSE Ord(Ch(s, first)) < Ord(Ch(t, first))))

\* str.replace(' ', '_').replace('-', '_')
ReplaceSpaceDash(s) ==
   Let(MapChars("space_to_us", s, 1, Len(s)), LAMBDA t : MapChars("dash_to_us", t, 1, Len(t)))

IsSpace(c) == c \in {" ", "\t", "\n", "\r"}

RECURSIVE LStrip(_)
LStrip(s) == IF Len(s) > 0 /\ IsSpace(Ch(s, 1)) THEN LStrip(SubSeq(s, 2, Len(s))) ELSE s

RECURSIVE RStrip(_)
RStrip(s) ==
   IF Len(s) > 0 /\ IsSpace(Ch(s, Len(s))) THEN RStrip(SubSeq(s, 1, Len(s) - 1)) ELSE s

\* str.strip()
Strip(s) == RStrip(LStrip(s))

\* s[:n]
Take(s, n) == IF Len(s) <= n THEN s ELSE SubSeq(s, 1, n)

StartsWith(s, p) == Len(p) <= Len(s) /\ SubSeq(s, 1, Len(p)) = p

EndsWith(s, p) == Len(p) <= Len(s) /\ SubSeq(s, Len(s) - Len(p) + 1, Len(s)) = p

\* p in s
Contains(s, p) ==
   \E i \in 1..(Len(s) - Len(p) + 1) : SubSeq(s, i, i + Len(p) - 1) = p

\* the regex class \w
IsWordChar(c) == CharIn(c, LOWER) \/ CharIn(c, UPPER) \/ CharIn(c, DIGITS) \/ c = "_"

\* the regex assertion \b between positions k and k+1 of s
WordBoundary(s, k) ==
   (k >= 1 /\ IsWordChar(Ch(s, k))) # (k + 1 <= Len(s) /\ IsWordChar(Ch(s, k + 1)))

\* re.search(r'\b' + re.escape(p) + r'\b', s)
WordSearch(s, p) ==
   \E i \in 1..(Len(s) - Len(p) + 1) :
      /\ SubSeq(s, i, i + Len(p) - 1) = p
      /\ WordBoundary(s, i - 1)
      /\ WordBoundary(s, i + Len(p) - 1)

SeqToSet(q) == {q[i] : i \in 1..Len(q)}

InSeq(x, q) == \E i \in 1..Len(q) : q[i] = x

\* the elements of q at the indices i >= from that are in keep, in order
SelectIdx(q, keep, from) ==
   Let({i \in from..Len(q) : i \in keep}, LAMBDA kept :
      [k \in 1..Cardinality(kept) |->
         q[CHOOSE i \in kept : Cardinality({j \in kept : j <= i}) = k]])

(***************************************************************************)
(* models/base.py: enums                                                   *)
(***************************************************************************)

DataTypes == {"financial", "manufacturing", "inventory", "sales", "purchase"}

Severities == {"critical", "high", "medium", "low"}

\* InsightCategory values
CatFinancial == "Financial Insights"
CatManufacturing == "Manufacturing & Operations Insights"
CatInventory == "Inventory & Stock Insights"
CatSales == "Sales Insights"
CatPurchase == "Purchase & Supply Chain Insights"
CatRisk == "Critical Risks"

InsightCategory ==
   <<CatFinancial, CatManufacturing, CatInventory, CatSales, CatPurchase, CatRisk>>

(***************************************************************************)
(* data_loader/schema_detector.py                                          *)
(***************************************************************************)

\* The synonym table, in the dict's insertion order. The one non-ASCII
\* synonym of wastage_quantity (two CJK characters) is written "ZZ": two
\* word characters that no lower-cased ASCII column name contains.
COLUMN_MAPPINGS ==
   <<
      <<"revenue", <<"revenue", "sales", "total_revenue", "gross_sales", "turnover">>>>,
      <<"cost_of_goods_sold", <<"cogs", "cost_of_goods", "cost_of_sales", "direct_costs">>>>,
      <<"gross_profit", <<"gross_profit", "gross_margin", "gross_earnings">>>>,
      <<"operating_expenses", <<"operating_expenses", "opex", "operating_costs", "operating_overhead">>>>,
      <<"operating_income", <<"operating_income", "operating_profit", "ebit">>>>,
      <<"net_income", <<"net_income", "net_profit", "net_earnings", "bottom_line", "profit_after_tax">>>>,
      <<"period", <<"period", "date", "month", "year", "quarter", "fiscal_period", "posting_date">>>>,
      <<"budget", <<"budget", "budgeted", "planned", "forecast">>>>,
      <<"product_id", <<"product_id", "product_code", "item_code", "material_code", "sku">>>>,
      <<"product_name", <<"product_name", "item_name", "description", "material_description">>>>,
      <<"planned_quantity", <<"planned_quantity", "planned_output", "target_quantity", "planned">>>>,
      <<"actual_quantity", <<"actual_quantity", "actual_output", "produced", "actual">>>>,
      <<"good_quantity", <<"good_quantity", "good_units", "conforming", "first_pass">>>>,
      <<"rejected_quantity", <<"rejected_quantity", "rejections", "scrap", "non_conforming">>>>,
      <<"wastage_quantity", <<"wastage", "waste", "ZZ">>>>,
      <<"production_line", <<"production_line", "line", "work_center", "machine", "equipment">>>>,
      <<"efficiency", <<"efficiency", "efficiency_rate", "oee", "utilization">>>>,
      <<"sku", <<"sku", "product_code", "item_code", "material_code", "product_id">>>>,
      <<"quantity", <<"quantity", "qty", "on_hand", "stock", "inventory_qty">>>>,
      <<"unit_cost", <<"unit_cost", "cost_per_unit", "standard_cost", "avg_cost">>>>,
      <<"unit_price", <<"unit_price", "selling_price", "price", "retail_price">>>>,
      <<"receipt_date", <<"receipt_date", "received_date", "doc_date", "posting_date">>>>,
      <<"last_movement_date", <<"last_movement", "last_issue", "last_sale", "last_activity">>>>,
      <<"warehouse", <<"warehouse", "warehouse_id", "location", "site", "plant">>>>,
      <<"order_id", <<"order_id", "order_number", "order_no", "sales_order", "so_number">>>>,
      <<"customer_id", <<"customer_id", "customer_code", "client_id", "account">>>>,
      <<"customer_name", <<"customer_name", "customer", "client", "account_name", "company">>>>,
      <<"order_date", <<"order_date", "order_dt", "sales_date", "transaction_date">>>>,
      <<"discount", <<"discount", "discount_amount", "disc", "allowance">>>>,
      <<"po_number", <<"po_number", "purchase_order", "po_no", "purchase_order_no">>>>,
      <<"supplier_id", <<"supplier_id", "vendor_id", "supplier_code", "vendor_code">>>>,
      <<"supplier_name", <<"supplier_name", "vendor", "supplier", "vendor_name">>>>,
      <<"quantity_ordered", <<"quantity_ordered", "ordered_qty", "po_quantity">>>>,
      <<"quantity_received", <<"quantity_received", "received_qty", "receipt_qty">>>>,
      <<"expected_delivery_date", <<"expected_delivery", "delivery_date", "promised_date">>>>,
      <<"actual_delivery_date", <<"actual_delivery", "delivery_received", "received_date">>>>
   >>

\* The three tests _map_column makes of one synonym, in the code's order:
\* 10 exact, 9 whole word, 8 prefix/suffix of a synonym of at most 4
\* characters, 0 none (the ColumnMapping confidence times ten).
VariationMatch(col_lower, variation) ==
   IF col_lower = variation THEN 10
   ELSE IF WordSearch(col_lower, variation) THEN 9
   ELSE IF Len(variation) <= 4
           /\ (StartsWith(col_lower, variation) \/ EndsWith(col_lower, variation))
        THEN 8
   ELSE 0

\* the places <<field index, synonym index>> of the table, in iteration order
MappingPlaces ==
   {<<f, v>> : f \in 1..Len(COLUMN_MAPPINGS), v \in 1..5} \cap
   {p \in (1..Len(COLUMN_MAPPINGS)) \X (1..5) : p[2] <= Len(COLUMN_MAPPINGS[p[1]][2])}

PlaceBefore(p, q) == p[1] < q[1] \/ (p[1] = q[1] /\ p[2] < q[2])

NoMapping == [column_name |-> "", expected_field |-> "", confidence |-> 0]

\* _map_column: the first place of the table, in iteration order, at which
\* any of the three tests succeeds decides the mapping. data_type is not
\* read by the code.
MapColumn(col_name, data_type) ==
   Let(ReplaceSpaceDash(Lower(col_name)), LAMBDA col_lower :
   Let({p \in MappingPlaces : VariationMatch(col_lower, COLUMN_MAPPINGS[p[1]][2][p[2]]) > 0},
       LAMBDA hits :
   IF hits = {} THEN NoMapping
   ELSE Let(CHOOSE p \in hits : \A q \in hits : q = p \/ PlaceBefore(p, q), LAMBDA first :
        [column_name |-> col_name,
         expected_field |-> COLUMN_MAPPINGS[first[1]][1],
         confidence |-> VariationMatch(col_lower, COLUMN_MAPPINGS[first[1]][2][first[2]])])))

\* _get_required_fields
GetRequiredFields(data_type) ==
   CASE data_type = "financial" -> <<"revenue", "period">>
     [] data_type = "manufacturing" -> <<"product_id", "planned_quantity", "actual_quantity">>
     [] data_type = "inventory" -> <<"sku", "quantity", "unit_cost">>
     [] data_type = "sales" -> <<"order_id", "product_id", "quantity", "total_amount">>
     [] data_type = "purchase" -> <<"po_number", "supplier_id", "quantity_ordered", "unit_price">>
     [] OTHER -> <<>>

\* round(min(0.5 + 0.5 * num / den, 1.0), 2) in hundredths, for num <= den:
\* 50 + 50 * num / den rounded to the nearest hundredth, the exact halves
\* (0.625, 0.875) to the even one as Python's round does
RoundedConfidence(num, den) ==
   LET q == (50 * num) \div den
       r == (50 * num) % den
   IN 50 + (IF 2 * r < den THEN q
            ELSE IF 2 * r > den THEN q + 1
            ELSE IF (50 + q) % 2 = 0 THEN q ELSE q + 1)

RECURSIVE MapAll(_, _, _)
\* the loop of create_schema_match over df.columns: the mappings found
MapAll(cols, data_type, i) ==
   IF i > Len(cols) THEN <<>>
   ELSE Let(MapColumn(cols[i], data_type), LAMBDA m : IF m = NoMapping THEN <<>> ELSE <<m>>)
        \o MapAll(cols, data_type, i + 1)

\* the required fields some column maps to
RequiredMatched(column_mappings, data_type) ==
   LET req == GetRequiredFields(data_type)
   IN {i \in 1..Len(req) :
          \E j \in 1..Len(column_mappings) : column_mappings[j].expected_field = req[i]}

\* create_schema_match(df, data_type) for a data_type other than UNKNOWN.
\* A frame whose column labels are not strings (a RangeIndex) makes
\* _map_column raise AttributeError on col_name.lower().
CreateSchemaMatch(df, data_type) ==
   IF df.kind # "table"
   THEN [raised |-> TRUE, confidence |-> 0, column_mappings |-> <<>>]
   ELSE Let(MapAll(df.cols, data_type, 1), LAMBDA column_mappings :
        [raised |-> FALSE,
         confidence |->
            RoundedConfidence(Cardinality(RequiredMatched(column_mappings, data_type)),
                              Len(GetRequiredFields(data_type))),
         column_mappings |-> column_mappings])

RECURSIVE BuildRenameMap(_, _, _, _)
\* the first loop of normalize_columns: the rename_map, in insertion order
BuildRenameMap(cols, data_type, i, used_targets) ==
   IF i > Len(cols) THEN <<>>
   ELSE Let(cols[i], LAMBDA col :
        Let(MapColumn(col, data_type), LAMBDA mapping :
        Let(mapping.expected_field, LAMBDA target :
        IF mapping = NoMapping THEN BuildRenameMap(cols, data_type, i + 1, used_targets)
        ELSE IF target \in used_targets /\ Lower(col) # target
             THEN BuildRenameMap(cols, data_type, i + 1, used_targets)
        ELSE IF Lower(col) = target
             THEN BuildRenameMap(cols, data_type, i + 1, used_targets)
        ELSE <<<<col, target>>>>
             \o BuildRenameMap(cols, data_type, i + 1, used_targets \cup {target}))))

RECURSIVE ApplyRenames(_, _, _)
\* the second loop of normalize_columns: drop the old column when the new
\* name already exists, rename it otherwise
ApplyRenames(cols, rename_map, i) ==
   IF i > Len(rename_map) THEN cols
   ELSE LET old_col == rename_map[i][1]
            new_col == rename_map[i][2]
            next == IF InSeq(new_col, cols)
                    THEN SelectSeq(cols, LAMBDA c : c # old_col)
                    ELSE [k \in 1..Len(cols) |-> IF cols[k] = old_col THEN new_col ELSE cols[k]]
        IN ApplyRenames(next, rename_map, i + 1)

\* normalize_columns(df, data_type): the frame with its columns renamed
NormalizeColumns(df, data_type) ==
   [df EXCEPT !.cols = ApplyRenames(df.cols, BuildRenameMap(df.cols, data_type, 1, {}), 1)]

(***************************************************************************)
(* Data frames                                                             *)
(*                                                                         *)
(* A frame is [kind, cols, facts, who, names, num]: cols are its column    *)
(* labels in order (kind "int_labels" is a frame whose labels are the      *)
(* integers of a RangeIndex, cols is then empty); facts is the set of      *)
(* conditions on the row values that hold of it, each written as the       *)
(* Python expression the code tests; who is the label of the top group     *)
(* (customer, supplier, product, expense category), names the labels of    *)
(* the groups a per-group loop flags, and num the rendering of a formatted *)
(* number (the digits are not modelled).                                   *)
(***************************************************************************)

Has(df, col) == InSeq(col, df.cols)

Fact(df, cond) == cond \in df.facts

\* one literal part and one formatted value of an f-string
L(s) == <<"lit", s>>
V(s) == <<"val", s>>

RECURSIVE JoinParts(_, _)
JoinParts(parts, i) ==
   IF i > Len(parts) THEN "" ELSE parts[i][2] \o JoinParts(parts, i + 1)

RECURSIVE JoinValues(_, _)
JoinValues(parts, i) ==
   IF i > Len(parts) THEN ""
   ELSE (IF parts[i][1] = "val" THEN parts[i][2] ELSE "") \o JoinValues(parts, i + 1)

\* the f-string without its literal text
FStringValuesOnly(parts) == JoinValues(parts, 1)

\* an f-string: its literal parts and formatted values, joined in order
FString(parts) == JoinParts(parts, 1)

\* BaseAnalyzer._create_insight
\* (metrics is the set of the keys of the metrics dict, {} for None)
CreateInsight(category, severity, text, metrics) ==
   [category |-> category, severity |-> severity,
    finding |-> text.finding, impact |-> text.impact, action |-> text.action,
    metrics |-> metrics]

\* what a helper of an analyzer gives: the insights, or an exception
Ok(insights) == [raised |-> FALSE, insights |-> insights]
Raised == [raised |-> TRUE, insights |-> <<>>]

\* one conditional insights.append(...)
When(cond, insight) == IF cond THEN <<insight>> ELSE <<>>

RECURSIVE Chain(_, _)
\* the helpers of analyze() run in order; the first exception ends it
Chain(steps, i) ==
   IF i > Len(steps) THEN Ok(<<>>)
   ELSE IF steps[i].raised THEN Raised
   ELSE Let(Chain(steps, i + 1), LAMBDA rest :
            IF rest.raised THEN Raised ELSE Ok(steps[i].insights \o rest.insights))

(***************************************************************************)
(* The texts of the insights, one definition per _create_insight call      *)
(***************************************************************************)

\* financial_analyzer.py line 141-147: severity Severity.CRITICAL; metrics yes: 'current_margin','prior_margin','change'
financial_analyze_margins_text1(df, who) ==
   [finding |->
      FString(<<L("Gross margin dropped from "),
         V(df.num),
         L("% to "),
         V(df.num),
         L("% ("),
         V(df.num),
         L("% decline over 3 periods)")>>),
    impact |->
      FString(<<L("At this rate, you will lose $"),
         V(df.num),
         L("% more margin in next 6 months, directly threatening profitability")>>),
    action |->
      FString(<<L("IMMEDIATE: (1) Renegotiate top 5 supplier contracts within 30 days targeting 10% cost reduction, (2) Review pricing on bottom 20% margin products, (3) Audit material waste in production")>>)]

\* financial_analyzer.py line 151-156: severity Severity.HIGH; metrics none
financial_analyze_margins_text2(df, who) ==
   [finding |->
      FString(<<L("Gross margin is critically low at "),
         V(df.num),
         L("% (industry benchmark: 30-40%)")>>),
    impact |->
      FString(<<L("Every $1 of revenue generates only $"),
         V(df.num),
         L(" gross profit - insufficient to cover operating costs")>>),
    action |->
      FString(<<L("Conduct 3-week margin improvement project: (1) Identify products with margin <15%, (2) Increase prices by 8-12% on those products, (3) Switch to lower-cost suppliers for top 10 SKUs by volume")>>)]

\* financial_analyzer.py line 165-170: severity Severity.HIGH; metrics none
financial_analyze_margins_text3(df, who) ==
   [finding |->
      FString(<<L("Net margin at "),
         V(df.num),
         L("% - barely covering cost of capital")>>),
    impact |->
      FString(<<L("Business is operating with razor-thin profitability. Any increase in costs or drop in sales will result in losses.")>>),
    action |->
      FString(<<L("Reduce fixed costs by 10% within 60 days through: (1) Renegotiate rent/leases, (2) Consolidate vendors, (3) Automate manual processes")>>)]

\* financial_analyzer.py line 182-187: severity Severity.HIGH; metrics none
financial_analyze_revenue_text1(df, who) ==
   [finding |->
      FString(<<L("Revenue dropped "),
         V(df.num),
         L("% MoM (from $"),
         V(df.num),
         L(" to $"),
         V(df.num),
         L(")")>>),
    impact |->
      FString(<<L("If decline continues, quarterly revenue will be $"),
         V(df.num),
         L(" - $"),
         V(df.num),
         L(" below target")>>),
    action |->
      FString(<<L("Week 1: (1) Contact top 20 customers to identify issues, (2) Analyze lost deals, (3) Review competitive landscape. Week 2: Launch retention campaign for at-risk accounts.")>>)]

\* financial_analyzer.py line 190-195: severity Severity.LOW; metrics none
financial_analyze_revenue_text2(df, who) ==
   [finding |->
      FString(<<L("Revenue growing strongly at "),
         V(df.num),
         L("% MoM")>>),
    impact |->
      FString(<<L("Strong momentum - opportunity to capitalize before competitors react")>>),
    action |->
      FString(<<L("Double down on winning channels: (1) Increase marketing spend by 20%, (2) Stock up on top-selling SKUs, (3) Expedite hiring for sales team")>>)]

\* financial_analyzer.py line 218-223: severity Severity.HIGH; metrics none
financial_analyze_expenses_text1(df, who) ==
   [finding |->
      FString(<<V(who),
         L(" represents "),
         V(df.num),
         L("% of total expenses ($"),
         V(df.num),
         L(")")>>),
    impact |->
      FString(<<L("Heavy concentration in "),
         V(who),
         L(" creates cost vulnerability - any price increase here directly hurts margins")>>),
    action |->
      FString(<<L("Diversify "),
         V(who),
         L(" spend: (1) Qualify 2-3 alternative suppliers, (2) Negotiate volume discounts with current supplier, (3) Reduce consumption by 10% through efficiency gains")>>)]

\* financial_analyzer.py line 230-235: severity severity; metrics none
financial_analyze_expenses_text2(df, who) ==
   [finding |->
      FString(<<L("Expenses are "),
         V(df.num),
         L("% over budget ($"),
         V(df.num),
         L(" overspend)")>>),
    impact |->
      FString(<<L("At this rate, annual overspend will be $"),
         V(df.num),
         L(" - equivalent to "),
         V(df.num),
         L("% of annual budget")>>),
    action |->
      FString(<<L("IMMEDIATE: Freeze all discretionary spending. Within 2 weeks: conduct line-item expense review. Identify top 5 cost reduction opportunities totaling $"),
         V(df.num),
         L(" in annual savings.")>>)]

\* financial_analyzer.py line 258-263: severity Severity.CRITICAL; metrics none
financial_analyze_customer_concentration_text1(df, who) ==
   [finding |->
      FString(<<L("Customer '"),
         V(who),
         L("' represents "),
         V(df.num),
         L("% of revenue ($"),
         V(df.num),
         L(")")>>),
    impact |->
      FString(<<L("LOSS OF THIS CUSTOMER = LOSS OF $"),
         V(df.num),
         L(" ANNUAL REVENUE. Business continuity at extreme risk.")>>),
    action |->
      FString(<<L("IMMEDIATE: (1) Assign dedicated account manager with weekly check-ins, (2) Schedule quarterly business review with executive, (3) Develop 3+ new customers in same segment within 90 days to reduce dependency below 20%")>>)]

\* financial_analyzer.py line 268-273: severity Severity.HIGH; metrics none
financial_analyze_customer_concentration_text2(df, who) ==
   [finding |->
      FString(<<L("Top 3 customers represent "),
         V(df.num),
         L("% of total revenue - dangerously concentrated")>>),
    impact |->
      FString(<<L("Losing any top customer severely impacts business. Revenue base lacks diversification.")>>),
    action |->
      FString(<<L("Launch customer diversification program: Target 10 new mid-tier customers ($50K-$200K annual) within 6 months. Focus on: [specific customer profiles]. Budget: $50K for acquisition.")>>)]

\* financial_analyzer.py line 287-292: severity Severity.HIGH; metrics none
financial_analyze_budget_variance_text1(df, who) ==
   [finding |->
      FString(<<L("Budget variance of "),
         V(df.num),
         L("% ($"),
         V(df.num),
         L(" over budget)")>>),
    impact |->
      FString(<<L("Variance exceeds materiality threshold of 10%. Management attention required.")>>),
    action |->
      FString(<<L("Conduct variance analysis: (1) Categorize variances by driver, (2) Identify one-time vs recurring, (3) Adjust next quarter budget or reduce spending accordingly")>>)]

\* manufacturing_analyzer.py line 132-137: severity Severity.HIGH; metrics none
manufacturing_analyze_production_efficiency_text1(df, who) ==
   [finding |->
      FString(<<L("Production efficiency at "),
         V(df.num),
         L("% (target: 95%). Shortfall: "),
         V(df.num),
         L(" units. Worst: "),
         V(who)>>),
    impact |->
      FString(<<L("Lost production = lost revenue opportunity. Estimated revenue loss: $"),
         V(df.num),
         L(" (assuming $50 avg unit value)")>>),
    action |->
      FString(<<L("IMMEDIATE (Week 1): Root cause analysis on worst 3 products. Check: equipment downtime, material supply issues, staffing. Set 90% efficiency target for next month. Week 2: Implement daily production standups to track and address issues immediately.")>>)]

\* manufacturing_analyzer.py line 152-157: severity Severity.MEDIUM; metrics none
manufacturing_analyze_production_efficiency_text2(df, who) ==
   [finding |->
      FString(<<L("Production line '"),
         V(who),
         L("' operating at only "),
         V(df.num),
         L("% efficiency")>>),
    impact |->
      FString(<<L("Line underperforming by "),
         V(df.num),
         L(" percentage points. Capacity wasted.")>>),
    action |->
      FString(<<L("Analyze line '"),
         V(who),
         L("': (1) Check equipment OEE, (2) Review operator training, (3) Audit material flow. Target 15% improvement within 30 days.")>>)]

\* manufacturing_analyzer.py line 183-188: severity Severity.HIGH if waste_rate > 10 else Severity.MEDIUM; metrics none
manufacturing_analyze_wastage_text1(df, who) ==
   [finding |->
      FString(<<L("Wastage rate at "),
         V(df.num),
         L("% ("),
         V(df.num),
         L(" units). Cost impact: ~$"),
         V(df.num)>>),
    impact |->
      FString(<<L("Annual wastage cost projection: $"),
         V(df.num),
         L(". Direct hit to gross margin. Each 1% reduction saves $"),
         V(df.num),
         L("/year.")>>),
    action |->
      FString(<<L("IMMEDIATE: (1) Quality control audit for high-wastage products, (2) Check raw material quality from suppliers, (3) Retrain operators on problem lines, (4) Set weekly wastage targets with accountability. Target: reduce wastage to <3% within 90 days.")>>)]

\* manufacturing_analyzer.py line 200-205: severity Severity.MEDIUM; metrics none
manufacturing_analyze_wastage_text2(df, who) ==
   [finding |->
      FString(<<L("Product '"),
         V(who),
         L("' generates "),
         V(df.num),
         L("% of all waste")>>),
    impact |->
      FString(<<L("Focus improvement efforts here for maximum impact. "),
         V(df.num),
         L(" units wasted.")>>),
    action |->
      FString(<<L("Deep-dive on '"),
         V(who),
         L("': (1) Analyze waste type (scrap vs rework), (2) Review BOM for accuracy, (3) Check operator training. Expected savings: $50K by reducing waste 50%.")>>)]

\* manufacturing_analyzer.py line 249-254: severity Severity.HIGH; metrics none
manufacturing_analyze_cost_per_unit_text1(df, who) ==
   [finding |->
      FString(<<L("Cost per unit increased "),
         V(df.num),
         L("% (from $"),
         V(df.num),
         L(" to $"),
         V(df.num),
         L(")."),
         V(who)>>),
    impact |->
      FString(<<L("Margin erosion. At current volume, extra cost = $"),
         V(df.num),
         L(" annually")>>),
    action |->
      FString(<<L("COST BREAKDOWN AUDIT within 2 weeks: Focus on biggest driver. If MATERIAL: renegotiate suppliers or find alternatives. If LABOR: review efficiency, reduce overtime, cross-train. If OVERHEAD: audit fixed cost allocation.")>>)]

\* manufacturing_analyzer.py line 272-277: severity Severity.MEDIUM; metrics none
manufacturing_analyze_yield_text1(df, who) ==
   [finding |->
      FString(<<L("Average yield rate at "),
         V(df.num),
         L("% - "),
         V(df.num),
         L(" units lost to non-conformance")>>),
    impact |->
      FString(<<L("Lost units represent $"),
         V(df.num),
         L(" in potential revenue (at $50 avg price). Yield improvement has highest ROI of any manufacturing improvement.")>>),
    action |->
      FString(<<L("YIELD IMPROVEMENT PROGRAM: (1) Implement first-pass yield tracking by product, (2) Root cause analysis on bottom 5 products, (3) Standardize work instructions. Target: 95% yield within 6 months.")>>)]

\* manufacturing_analyzer.py line 289-294: severity Severity.HIGH; metrics none
manufacturing_analyze_production_trends_text1(df, who) ==
   [finding |->
      FString(<<L("Production output dropped "),
         V(df.num),
         L("% MoM")>>),
    impact |->
      FString(<<L("Capacity underutilization affects fixed cost absorption. At this rate, quarterly output will be "),
         V(df.num),
         L("% below target.")>>),
    action |->
      FString(<<L("PRODUCTION RECOVERY PLAN: (1) Identify bottleneck causing drop, (2) Schedule overtime to catch up, (3) Review workforce availability. Target: restore to baseline within 4 weeks.")>>)]

\* manufacturing_analyzer.py line 297-302: severity Severity.LOW; metrics none
manufacturing_analyze_production_trends_text2(df, who) ==
   [finding |->
      FString(<<L("Production ramping up +"),
         V(df.num),
         L("% MoM")>>),
    impact |->
      FString(<<L("Strong demand signal. Ensure operations can sustain this level.")>>),
    action |->
      FString(<<L("CAPACITY CHECK: (1) Verify raw material availability, (2) Assess workforce capacity, (3) Plan for 25% additional volume. Consider temporary staffing or overtime.")>>)]

\* inventory_analyzer.py line 140-146: severity severity; metrics yes: 'dead_sku_count','dead_value','threshold_days'
inventory_identify_dead_stock_text1(df, who) ==
   [finding |->
      FString(<<L("DEAD STOCK ALERT: "),
         V(df.num),
         L(" SKUs with no movement for "),
         V("180"),
         L("+ days, total value $"),
         V(df.num),
         L(". Top 5: "),
         V(who)>>),
    impact |->
      FString(<<L("$"),
         V(df.num),
         L(" capital frozen. Warehouse space wasted. Obsolescence risk increases daily. Carrying cost: $"),
         V(df.num),
         L("/year.")>>),
    action |->
      FString(<<L("IMMEDIATE ACTION PLAN: Week 1 - Run flash sale at 40% discount on top 5 SKUs (recover ~$"),
         V(df.num),
         L("). Week 2-4 - Liquidate remaining dead stock via: (1) Clearance website, (2) Bulk buyer, (3) Donation for tax benefit. Stop reordering these SKUs immediately.")>>)]

\* inventory_analyzer.py line 181-187: severity Severity.MEDIUM; metrics yes: 'overstock_sku_count','excess_value'
inventory_identify_overstock_text1(df, who) ==
   [finding |->
      FString(<<L("Overstock: "),
         V(df.num),
         L(" SKUs with >"),
         V("90"),
         L(" days coverage, excess value ~$"),
         V(df.num),
         L(". Top: "),
         V(who)>>),
    impact |->
      FString(<<L("Excess capital tied up. Storage costs increasing. Carrying cost: $"),
         V(df.num),
         L("/year. Risk of obsolescence.")>>),
    action |->
      FString(<<L("IMMEDIATE: (1) Reduce reorder quantities by 40% for these SKUs, (2) Work with sales to push slow movers via bundles/promotions, (3) Adjust safety stock levels down 30%. Target: reduce overstock value by 50% within 90 days.")>>)]

\* inventory_analyzer.py line 234-240: severity Severity.HIGH; metrics other
inventory_analyze_stock_aging_text1(df, who) ==
   [finding |->
      FString(<<V(df.num),
         L("% of inventory value is 90+ days old ($"),
         V(df.num),
         L(")")>>),
    impact |->
      FString(<<L("Inventory is aging poorly. Obsolescence risk is high. Markdown pressure will increase. Customer preference for newer stock.")>>),
    action |->
      FString(<<L("INVENTORY AGING ACTION: (1) Implement FIFO enforcement strictly, (2) Review demand planning accuracy, (3) Reduce lead times with key suppliers, (4) Consider bundling old stock with new sales. Target: reduce 90+ day stock below 15%.")>>)]

\* inventory_analyzer.py line 272-278: severity Severity.MEDIUM; metrics yes: 'turnover','category'
inventory_analyze_turnover_text1(df, who) ==
   [finding |->
      FString(<<L("Category '"),
         V(who),
         L("' has low turnover of "),
         V(df.num),
         L("x annually (industry benchmark: 6-8x)")>>),
    impact |->
      FString(<<L("Capital inefficiency. Working capital tied up in slow-moving products. Storage and handling costs not justified by sales.")>>),
    action |->
      FString(<<L("CATEGORY RATIONALIZATION for '"),
         V(who),
         L("': (1) SKU rationalization review - cut bottom 20% performers, (2) Adjust safety stock down 30%, (3) Increase prices 5-10% to improve margin, (4) Consider discontinuation of bottom 10 SKUs. Expected savings: $"),
         V(df.num),
         L(" in reduced inventory.")>>)]

\* inventory_analyzer.py line 298-303: severity Severity.MEDIUM; metrics none
inventory_analyze_stock_sales_mismatch_text1(df, who) ==
   [finding |->
      FString(<<V(df.num),
         L(" SKUs with high stock but no sales for 90+ days")>>),
    impact |->
      FString(<<L("$"),
         V(df.num),
         L(" in stagnant inventory. These items are tying up capital without generating returns.")>>),
    action |->
      FString(<<L("STAGNANT INVENTORY REVIEW: (1) Analyze why these items aren't selling - pricing? competition? obsolescence?, (2) Create promotional plan for next 30 days, (3) After 30 days, liquidate remaining via clearance channels.")>>)]

\* sales_analyzer.py line 137-142: severity Severity.HIGH; metrics none
sales_analyze_trends_text1(df, who) ==
   [finding |->
      FString(<<L("Sales dropped "),
         V(df.num),
         L("% MoM ($"),
         V(df.num),
         L(" to $"),
         V(df.num),
         L(")")>>),
    impact |->
      FString(<<L("If decline continues, Q4 revenue will be $"),
         V(df.num),
         L(" vs projected $"),
         V(df.num),
         L(" - a $"),
         V(df.num),
         L(" shortfall")>>),
    action |->
      FString(<<L("IMMEDIATE (Week 1): (1) Check top 10 accounts for issues/churn signals, (2) Analyze lost deals in CRM, (3) Review competitive activity. Week 2: Launch retention campaign for at-risk customers. Target: recover 50% of lost revenue within 30 days.")>>)]

\* sales_analyzer.py line 145-150: severity Severity.LOW; metrics none
sales_analyze_trends_text2(df, who) ==
   [finding |->
      FString(<<L("Sales growing strongly at "),
         V(df.num),
         L("% quarter-over-quarter")>>),
    impact |->
      FString(<<L("Strong growth trajectory. Ensure operations can scale to meet demand before it becomes a capacity constraint.")>>),
    action |->
      FString(<<L("CAPACITY PLANNING: (1) Review inventory levels for top 20 SKUs, (2) Assess production capacity, (3) Plan for 25% additional volume. Consider promotional limits to manage demand.")>>)]

\* sales_analyzer.py line 161-166: severity Severity.MEDIUM; metrics none
sales_analyze_trends_text3(df, who) ==
   [finding |->
      FString(<<L("Sales volatility at "),
         V(df.num),
         L("% - inconsistent performance")>>),
    impact |->
      FString(<<L("High volatility makes planning difficult. Some months significantly underperforming.")>>),
    action |->
      FString(<<L("STABILIZE SALES: (1) Identify what's driving volatility (seasonality? promotions?), (2) Build rolling 3-month forecast, (3) Implement lead indicators to predict slow months.")>>)]

\* sales_analyzer.py line 196-201: severity Severity.MEDIUM; metrics none
sales_analyze_product_performance_text1(df, who) ==
   [finding |->
      FString(<<L("Bottom 10 products contribute only $"),
         V(df.num),
         L(" ("),
         V(df.num),
         L("% of revenue) - inefficient SKU portfolio")>>),
    impact |->
      FString(<<L("These products consume resources (inventory, warehouse space, management attention) without meaningful return. Cost to carry likely exceeds margin.")>>),
    action |->
      FString(<<L("SKU RATIONALIZATION: (1) Discontinue bottom 5 products immediately, (2) Conduct margin analysis on next 5, (3) Reallocate resources to top 20 products. Expected savings: $50K in reduced inventory + $20K in operational efficiency.")>>)]

\* sales_analyzer.py line 209-214: severity Severity.MEDIUM; metrics none
sales_analyze_product_performance_text2(df, who) ==
   [finding |->
      FString(<<L("Top 5 products represent "),
         V(df.num),
         L("% of revenue - product concentration risk")>>),
    impact |->
      FString(<<L("Business heavily dependent on few products. Any issue with these products (supply, quality, competition) severely impacts revenue.")>>),
    action |->
      FString(<<L("PRODUCT DIVERSIFICATION: (1) Analyze what makes top products successful, (2) Develop next tier of products with similar characteristics, (3) Set target to reduce top 5 concentration below 50% within 12 months.")>>)]

\* sales_analyzer.py line 243-248: severity Severity.CRITICAL; metrics none
sales_analyze_customer_concentration_text1(df, who) ==
   [finding |->
      FString(<<L("Customer '"),
         V(who),
         L("' represents "),
         V(df.num),
         L("% of revenue ($"),
         V(df.num),
         L(")")>>),
    impact |->
      FString(<<L("SINGLE POINT OF FAILURE. Loss of this customer = loss of $"),
         V(df.num),
         L(" annual revenue. Business continuity at extreme risk.")>>),
    action |->
      FString(<<L("IMMEDIATE CUSTOMER RETENTION: (1) Assign executive sponsor to this account, (2) Schedule quarterly business review with customer execs, (3) Develop 3+ new customers in similar segment within 6 months to reduce dependency below 20%, (4) Create switching costs via integration/customization. Budget: $100K for relationship deepening.")>>)]

\* sales_analyzer.py line 256-261: severity Severity.HIGH; metrics none
sales_analyze_customer_concentration_text2(df, who) ==
   [finding |->
      FString(<<L("Top 5 customers represent "),
         V(df.num),
         L("% of revenue ($"),
         V(df.num),
         L(" of $"),
         V(df.num),
         L(")")>>),
    impact |->
      FString(<<L("Customer base dangerously concentrated. Revenue highly vulnerable to customer churn. Losing 2 top customers would be catastrophic.")>>),
    action |->
      FString(<<L("CUSTOMER DIVERSIFICATION PROGRAM: (1) Launch mid-market acquisition initiative targeting 15 new customers in $25K-$100K tier within 12 months, (2) Increase marketing spend on customer acquisition, (3) Set KPI: reduce top 5 concentration below 50%. Budget: $150K for acquisition program.")>>)]

\* sales_analyzer.py line 277-282: severity Severity.HIGH; metrics none
sales_analyze_customer_concentration_text3(df, who) ==
   [finding |->
      FString(<<L("3 customers showing 30%+ revenue decline - churn risk")>>),
    impact |->
      FString(<<L("$"),
         V(df.num),
         L(" in declining revenue. These customers may be at risk of leaving.")>>),
    action |->
      FString(<<L("CHURN PREVENTION: (1) Contact each declining customer within 1 week, (2) Understand their issues, (3) Offer retention incentives, (4) Document feedback for product/operations. Target: reverse decline in 2 customers.")>>)]

\* sales_analyzer.py line 302-307: severity Severity.MEDIUM if concentration == 'HIGH' else Severity.LOW; metrics none
sales_pareto_analysis_text1(df, who) ==
   [finding |->
      FString(<<V(df.num),
         L(" products ("),
         V(df.num),
         L("% of SKUs) generate 80% of revenue")>>),
    impact |->
      FString(<<V(IF Fact(df, "concentration == 'HIGH'") THEN "Heavy concentration - focus resources on winners" ELSE "Healthy distribution across product portfolio")>>),
    action |->
      FString(<<L("RESOURCE ALLOCATION: Prioritize top "),
         V(df.num),
         L(" products for: (1) Inventory investment, (2) Marketing spend, (3) Sales focus. Review ROI on remaining "),
         V(df.num),
         L(" products - consider pruning underperformers.")>>)]

\* sales_analyzer.py line 327-332: severity Severity.HIGH; metrics none
sales_analyze_discounts_text1(df, who) ==
   [finding |->
      FString(<<L("Average discount rate at "),
         V(df.num),
         L("% - eroding margins")>>),
    impact |->
      FString(<<L("Every 1% of discount directly reduces margin. At "),
         V(df.num),
         L("%, you're giving away $"),
         V(df.num),
         L(" in potential margin.")>>),
    action |->
      FString(<<L("DISCIPLINE DISCOUNTS: (1) Set maximum discount thresholds by product category, (2) Require manager approval for discounts >15%, (3) Train sales on value-based selling instead of price-based. Target: reduce average discount to <10%.")>>)]

\* sales_analyzer.py line 335-340: severity Severity.MEDIUM; metrics none
sales_analyze_discounts_text2(df, who) ==
   [finding |->
      FString(<<V(df.num),
         L(" orders with >20% discount - potential discounting abuse")>>),
    impact |->
      FString(<<L("Deep discounting on "),
         V(df.num),
         L(" orders. Revenue leakage opportunity.")>>),
    action |->
      FString(<<L("DISCOUNT AUDIT: Review top 10 high-discount orders: (1) Were approvals obtained?, (2) What's the customer reason?, (3) Is there pattern by sales rep? Implement stricter controls.")>>)]

\* purchase_analyzer.py line 120-125: severity Severity.HIGH; metrics none
purchase_analyze_supplier_performance_text1(df, who) ==
   [finding |->
      FString(<<L("Supplier '"),
         V(who),
         L("' has only "),
         V(df.num),
         L("% on-time delivery rate")>>),
    impact |->
      FString(<<L("Supply chain reliability at risk. Late deliveries cause production delays, stockouts, and missed customer commitments.")>>),
    action |->
      FString(<<L("SUPPLIER PERFORMANCE MANAGEMENT: (1) Schedule meeting with supplier to address issues, (2) Request corrective action plan, (3) Qualify backup supplier within 30 days, (4) Consider reducing order volume by 50% until performance improves.")>>)]

\* purchase_analyzer.py line 131-136: severity Severity.MEDIUM; metrics none
purchase_analyze_supplier_performance_text2(df, who) ==
   [finding |->
      FString(<<L("Supplier '"),
         V(who),
         L("' quality rejection rate at "),
         V(df.num),
         L("%")>>),
    impact |->
      FString(<<L("High rejection rate increases costs and causes delays. Each 1% rejection adds $"),
         V(df.num),
         L(" in waste.")>>),
    action |->
      FString(<<L("QUALITY REVIEW with '"),
         V(who),
         L("': (1) Request root cause analysis, (2) Implement incoming inspection for their products, (3) Set quality improvement target of <2% within 60 days.")>>)]

\* purchase_analyzer.py line 161-166: severity Severity.CRITICAL; metrics none
purchase_analyze_supplier_concentration_text1(df, who) ==
   [finding |->
      FString(<<L("Single supplier dependency: '"),
         V(who),
         L("' represents "),
         V(df.num),
         L("% of spend ($"),
         V(df.num),
         L(")")>>),
    impact |->
      FString(<<L("SUPPLY CHAIN SINGLE POINT OF FAILURE. If this supplier has issues, your entire operation stops. No leverage for price negotiations.")>>),
    action |->
      FString(<<L("SUPPLIER DIVERSIFICATION IMMEDIATELY: (1) Qualify 2-3 alternative suppliers within 60 days, (2) Shift at least 30% volume to new suppliers within 90 days, (3) Negotiate volume flexibility with current supplier. Budget: $30K for supplier qualification.")>>)]

\* purchase_analyzer.py line 171-176: severity Severity.HIGH; metrics none
purchase_analyze_supplier_concentration_text2(df, who) ==
   [finding |->
      FString(<<L("Top 3 suppliers represent "),
         V(df.num),
         L("% of spend - supplier concentration risk")>>),
    impact |->
      FString(<<L("Over-reliance on few suppliers. Any disruption (natural disaster, quality issue, price increase) severely impacts operations.")>>),
    action |->
      FString(<<L("STRATEGIC SOURCING: (1) Develop supplier diversification roadmap, (2) Identify categories for new supplier onboarding, (3) Set target: top 3 < 50% within 18 months. Build relationships with secondary suppliers now.")>>)]

\* purchase_analyzer.py line 193-198: severity Severity.MEDIUM; metrics none
purchase_analyze_lead_times_text1(df, who) ==
   [finding |->
      FString(<<L("Lead time variability at "),
         V(df.num),
         L(" days (avg: "),
         V(df.num),
         L(") - unpredictable supply")>>),
    impact |->
      FString(<<L("High variability makes planning difficult. Some orders taking 50% longer than average, causing stockouts or excess inventory.")>>),
    action |->
      FString(<<L("STABILIZE LEAD TIMES: (1) Analyze which suppliers have highest variability, (2) Work with them on more consistent scheduling, (3) Build safety stock for high-variability items, (4) Consider expedited shipping for critical items.")>>)]

\* purchase_analyzer.py line 201-206: severity Severity.MEDIUM; metrics none
purchase_analyze_lead_times_text2(df, who) ==
   [finding |->
      FString(<<V(df.num),
         L(" orders ("),
         V(df.num),
         L("%) have lead times >50% above average")>>),
    impact |->
      FString(<<L("Significant delays affecting "),
         V(df.num),
         L(" orders. Impact on production schedules and customer deliveries.")>>),
    action |->
      FString(<<L("LEAD TIME ROOT CAUSE: (1) Map order-to-delivery process, (2) Identify delay points, (3) Work with suppliers on improvement. Target: reduce long-lead orders by 50% within 90 days.")>>)]

\* purchase_analyzer.py line 230-235: severity Severity.HIGH; metrics none
purchase_analyze_price_trends_text1(df, who) ==
   [finding |->
      FString(<<L("Purchase prices increased "),
         V(df.num),
         L("% over 3 months ($"),
         V(df.num),
         L(" to $"),
         V(df.num),
         L(")")>>),
    impact |->
      FString(<<L("Direct hit to margins. At current volumes, additional cost = $"),
         V(df.num),
         L(" annually")>>),
    action |->
      FString(<<L("PRICE MANAGEMENT: (1) Negotiate with current suppliers for price freeze/reduction, (2) Source alternative suppliers, (3) Evaluate if price increase can be passed to customers, (4) Review product specifications for cost reduction opportunities.")>>)]

\* purchase_analyzer.py line 238-243: severity Severity.LOW; metrics none
purchase_analyze_price_trends_text2(df, who) ==
   [finding |->
      FString(<<L("Prices decreased "),
         V(df.num),
         L("% - good cost management opportunity")>>),
    impact |->
      FString(<<L("Margin improvement opportunity. Consider if prices can stay low or if you renegotiated well.")>>),
    action |->
      FString(<<L("CAPTURE SAVINGS: (1) Lock in lower prices with suppliers, (2) Review contracts for price protection clauses, (3) Consider passing savings to customers strategically to gain volume.")>>)]

\* purchase_analyzer.py line 258-263: severity Severity.HIGH; metrics none
purchase_analyze_delivery_performance_text1(df, who) ==
   [finding |->
      FString(<<L("On-time delivery rate at "),
         V(df.num),
         L("% - below 85% threshold")>>),
    impact |->
      FString(<<L("Supply chain reliability issue. 15%+ of orders arriving late affects production schedules and customer commitments.")>>),
    action |->
      FString(<<L("DELIVERY IMPROVEMENT PROGRAM: (1) Review supplier scorecards, (2) Identify worst-performing suppliers, (3) Implement supplier scorecards with consequences, (4) Build buffer inventory for critical items. Target: 95% on-time within 6 months.")>>)]

\* purchase_analyzer.py line 270-275: severity Severity.MEDIUM; metrics none
purchase_analyze_delivery_performance_text2(df, who) ==
   [finding |->
      FString(<<L("Avg delay of "),
         V(df.num),
         L(" days when deliveries are late")>>),
    impact |->
      FString(<<L("Production and customer orders delayed by "),
         V(df.num),
         L(" days on average. Cumulative impact significant.")>>),
    action |->
      FString(<<L("REDUCE DELAY IMPACT: (1) Negotiate penalty clauses for late deliveries, (2) Build safety stock for items with history of delays, (3) Consider expedited shipping for critical items.")>>)]

(***************************************************************************)
(* analyzers/inventory_analyzer.py                                         *)
(***************************************************************************)

\* pd.to_datetime without errors='coerce' raises on text that is no date
BadDates(df) == Fact(df, "pd.to_datetime raises")

\* df has a stock_value column, or the helper computes one
HasStockValue(df) == Has(df, "stock_value") \/ (Has(df, "quantity") /\ Has(df, "unit_cost"))

\* calculate_kpis raises when receipt_date does not parse
inventory_calculate_kpis_raises(df) == Has(df, "receipt_date") /\ BadDates(df)

InventoryKpiKeys ==
   {"total_stock_value", "total_skus", "inventory_turnover", "days_inventory_outstanding",
    "average_stock_age_days"}

\* calculate_kpis: days_inventory is 365 / inventory_turnover, and 0 unless
\* there is a cogs column and a positive stock value. Values no modelled
\* code reads are 0.
inventory_calculate_kpis(df) ==
   [k \in InventoryKpiKeys |->
      IF k = "days_inventory_outstanding"
      THEN (IF Has(df, "cogs") /\ Has(df, "quantity") /\ Has(df, "unit_cost")
               /\ Fact(df, "inventory_turnover > 0")
            THEN (IF Fact(df, "days_inventory > 90") THEN 120 ELSE 45)
            ELSE 0)
      ELSE 0]

inventory_identify_dead_stock(df) ==
   LET date_col == \E c \in {"last_movement_date", "last_movement", "last_activity", "last_sale"} :
                      Has(df, c)
       severity == IF HasStockValue(df) /\ Fact(df, "total_dead_value > 100000")
                   THEN "critical" ELSE "high"
   IN Ok(When(date_col /\ Fact(df, "len(dead_stock) > 0"),
              CreateInsight(CatInventory, severity,
                            inventory_identify_dead_stock_text1(df, df.who),
                            {"dead_sku_count", "dead_value", "threshold_days"})))

inventory_identify_overstock(df) ==
   LET days_of_stock == Has(df, "days_of_stock")
                        \/ (Has(df, "quantity") /\ Has(df, "average_daily_usage"))
   IN Ok(When(days_of_stock /\ Fact(df, "len(overstock) > 0"),
              CreateInsight(CatInventory, "medium",
                            inventory_identify_overstock_text1(df, df.who),
                            {"overstock_sku_count", "excess_value"})))

inventory_analyze_stock_aging(df) ==
   LET date_col == \E c \in {"receipt_date", "received_date", "doc_date"} : Has(df, c)
   IN Ok(When(date_col /\ Fact(df, "total_value > 0 and old_stock_pct > 30"),
              CreateInsight(CatInventory, "high",
                            inventory_analyze_stock_aging_text1(df, df.who),
                            {"0-30 days", "31-60 days", "61-90 days", "90+ days"})))

\* one insight per low-turnover category; on the quantity / quantity_sold
\* branch the action's row['stock_value'] is a KeyError
inventory_analyze_turnover(df) ==
   LET low_turnover == IF Fact(df, "len(low_turnover) > 0") THEN df.names ELSE <<>>
       each == [i \in 1..Len(low_turnover) |->
                  CreateInsight(CatInventory, "medium",
                                inventory_analyze_turnover_text1(df, low_turnover[i]),
                                {"turnover", "category"})]
   IN IF ~Has(df, "category") THEN Ok(<<>>)
      ELSE IF Has(df, "cogs") /\ Has(df, "stock_value") THEN Ok(each)
      ELSE IF Has(df, "quantity") /\ Has(df, "quantity_sold")
           THEN (IF Len(low_turnover) > 0 THEN Raised ELSE Ok(<<>>))
      ELSE Ok(<<>>)

inventory_analyze_stock_sales_mismatch(df) ==
   Ok(When(Has(df, "days_since_movement") /\ Has(df, "quantity")
           /\ Fact(df, "len(high_stock_no_movement) > 10"),
           CreateInsight(CatInventory, "medium",
                         inventory_analyze_stock_sales_mismatch_text1(df, df.who), {})))

InventoryChartKeys == {"aging_distribution", "top_skus_by_value", "turnover_by_category"}

\* _generate_charts_data selects [[sku_col, 'stock_value']]: a KeyError when
\* the frame has stock_value and neither sku nor product_id
inventory_generate_charts_data_raises(df) ==
   Has(df, "stock_value") /\ ~Has(df, "sku") /\ ~Has(df, "product_id")

\* InventoryAnalyzer.analyze, then model_dump()
InventoryAnalyze(df) ==
   Let(Chain(<<inventory_identify_dead_stock(df), inventory_identify_overstock(df),
                        inventory_analyze_stock_aging(df), inventory_analyze_turnover(df),
                        inventory_analyze_stock_sales_mismatch(df)>>, 1),
       LAMBDA steps :
       [raised |-> inventory_calculate_kpis_raises(df) \/ steps.raised
                        \/ inventory_generate_charts_data_raises(df),
          domain |-> "inventory",
          kpis |-> inventory_calculate_kpis(df),
          insights |-> steps.insights,
          charts_data |-> InventoryChartKeys])

(***************************************************************************)
(* analyzers/base_analyzer.py                                              *)
(***************************************************************************)

\* trend_analysis(value_col) with the default date_col 'date': "raised" when
\* pd.to_datetime, outside the try, raises; "error" when it returns a dict
\* with an 'error' key; "ok" otherwise
trend_analysis(df, value_col) ==
   IF ~Has(df, "date") \/ ~Has(df, value_col) THEN "error"
   ELSE IF BadDates(df) THEN "raised"
   ELSE IF Fact(df, "'error' not in trend") THEN "ok" ELSE "error"

\* pareto_analysis(category_col, value_col): "error" or "ok"
pareto_analysis(df, category_col, value_col) ==
   IF ~Has(df, category_col) \/ ~Has(df, value_col) THEN "error"
   ELSE IF Fact(df, "total == 0") THEN "error" ELSE "ok"

\* variance_analysis(actual_col, planned_col): "error" or "ok"
variance_analysis(df, actual_col, planned_col) ==
   IF ~Has(df, actual_col) \/ ~Has(df, planned_col) THEN "error" ELSE "ok"

(***************************************************************************)
(* analyzers/sales_analyzer.py                                             *)
(***************************************************************************)

SalesKpiKeys ==
   {"total_revenue", "order_count", "average_order_value", "unique_customers",
    "unique_products", "gross_margin", "average_margin_pct", "revenue_growth_pct"}

\* _calculate_growth, called by calculate_kpis, parses the date column
sales_calculate_kpis_raises(df) == Has(df, "date") /\ Has(df, "total_amount") /\ BadDates(df)

sales_calculate_kpis(df) == [k \in SalesKpiKeys |-> 0]

sales_analyze_trends(df) ==
   IF ~Has(df, "date") \/ ~Has(df, "total_amount") THEN Ok(<<>>)
   ELSE LET trend == trend_analysis(df, "total_amount")
        IN IF trend = "raised" THEN Raised
           ELSE IF trend = "error" THEN Ok(<<>>)
           ELSE Ok(When(Fact(df, "trend['mom_change_pct'] < -10"),
                        CreateInsight(CatSales, "high", sales_analyze_trends_text1(df, df.who), {}))
                   \o When(Fact(df, "trend['qoq_change_pct'] > 20"),
                           CreateInsight(CatSales, "low", sales_analyze_trends_text2(df, df.who), {}))
                   \o When(Fact(df, "trend['data_points'] >= 4 and volatility > 30"),
                           CreateInsight(CatSales, "medium", sales_analyze_trends_text3(df, df.who), {})))

sales_analyze_product_performance(df) ==
   IF ~Has(df, "product_id") \/ ~Has(df, "total_amount") THEN Ok(<<>>)
   ELSE Ok(When(Fact(df, "product_count > 20 and bottom_10_pct < 5"),
                CreateInsight(CatSales, "medium",
                              sales_analyze_product_performance_text1(df, df.who), {}))
           \o When(Fact(df, "top_5_pct > 60"),
                   CreateInsight(CatSales, "medium",
                                 sales_analyze_product_performance_text2(df, df.who), {})))

\* customer_sales.iloc[0] is an IndexError on a frame without rows; the
\* comparison of a date column of strings with a Timestamp is a TypeError
sales_analyze_customer_concentration(df) ==
   IF ~Has(df, "customer_id") \/ ~Has(df, "total_amount") THEN Ok(<<>>)
   ELSE IF Fact(df, "len(df) == 0") THEN Raised
   ELSE IF Has(df, "date") /\ Fact(df, "df['date'].dtype == object") THEN Raised
   ELSE Ok(When(Fact(df, "top_customer_pct > 30.0"),
                CreateInsight(CatSales, "critical",
                              sales_analyze_customer_concentration_text1(df, df.who), {}))
           \o When(Fact(df, "customer_count >= 5 and top_5_pct > 70"),
                   CreateInsight(CatSales, "high",
                                 sales_analyze_customer_concentration_text2(df, df.who), {}))
           \o When(Has(df, "date") /\ Fact(df, "len(declining) > 0"),
                   CreateInsight(CatSales, "high",
                                 sales_analyze_customer_concentration_text3(df, df.who), {})))

sales_pareto_analysis(df) ==
   IF ~Has(df, "product_id") \/ ~Has(df, "total_amount") THEN Ok(<<>>)
   ELSE Ok(When(pareto_analysis(df, "product_id", "total_amount") = "ok",
                CreateInsight(CatSales,
                              IF Fact(df, "concentration == 'HIGH'") THEN "medium" ELSE "low",
                              sales_pareto_analysis_text1(df, df.who), {})))

sales_analyze_discounts(df) ==
   IF ~Has(df, "discount") /\ ~Has(df, "discount_amount") THEN Ok(<<>>)
   ELSE IF ~Has(df, "total_amount") THEN Ok(<<>>)
   ELSE Ok(When(Fact(df, "avg_discount > 15"),
                CreateInsight(CatSales, "high", sales_analyze_discounts_text1(df, df.who), {}))
           \o When(Fact(df, "len(high_discount_orders) > 10"),
                   CreateInsight(CatSales, "medium", sales_analyze_discounts_text2(df, df.who), {})))

SalesChartKeys == {"revenue_trend", "top_products", "top_customers"}

sales_generate_charts_data_raises(df) == Has(df, "date") /\ Has(df, "total_amount") /\ BadDates(df)

\* SalesAnalyzer.analyze, then model_dump()
SalesAnalyze(df) ==
   Let(Chain(<<sales_analyze_trends(df), sales_analyze_product_performance(df),
                        sales_analyze_customer_concentration(df), sales_pareto_analysis(df),
                        sales_analyze_discounts(df)>>, 1),
       LAMBDA steps :
       [raised |-> sales_calculate_kpis_raises(df) \/ steps.raised
                        \/ sales_generate_charts_data_raises(df),
          domain |-> "sales",
          kpis |-> sales_calculate_kpis(df),
          insights |-> steps.insights,
          charts_data |-> SalesChartKeys])

(***************************************************************************)
(* analyzers/financial_analyzer.py                                         *)
(***************************************************************************)

FinancialKpiKeys ==
   {"total_revenue", "gross_profit", "gross_margin_pct", "operating_income",
    "operating_margin_pct", "net_income", "net_margin_pct", "total_expenses",
    "expense_ratio", "revenue_growth"}

\* _calculate_growth('revenue'), called by calculate_kpis, parses period
financial_calculate_kpis_raises(df) == Has(df, "revenue") /\ Has(df, "period") /\ BadDates(df)

\* calculate_kpis: net_margin_pct is 0 unless total_revenue > 0
financial_calculate_kpis(df) ==
   [k \in FinancialKpiKeys |->
      IF k = "net_margin_pct"
      THEN (IF Has(df, "revenue") /\ Fact(df, "total_revenue > 0")
            THEN (IF Fact(df, "net_margin_pct < 5") THEN 3 ELSE 12)
            ELSE 0)
      ELSE 0]

\* with three or more rows df['gross_margin_pct'].iloc[-3] is read whether
\* or not the column was computed
financial_analyze_margins(df) ==
   IF ~Has(df, "period") THEN Ok(<<>>)
   ELSE IF BadDates(df) THEN Raised
   ELSE IF Fact(df, "len(df) >= 3")
           /\ ~(Has(df, "revenue") /\ Has(df, "cost_of_goods_sold"))
           /\ ~Has(df, "gross_margin_pct")
        THEN Raised
   ELSE Ok(When(Fact(df, "len(df) >= 3") /\ Fact(df, "margin_change < -5"),
                CreateInsight(CatFinancial, "critical",
                              financial_analyze_margins_text1(df, df.who),
                              {"current_margin", "prior_margin", "change"}))
           \o When(Fact(df, "len(df) >= 3") /\ Fact(df, "recent_margin < 20"),
                   CreateInsight(CatFinancial, "high",
                                 financial_analyze_margins_text2(df, df.who), {}))
           \o When(Has(df, "net_income") /\ Has(df, "revenue")
                   /\ Fact(df, "len(df) >= 2 and current_net < 5"),
                   CreateInsight(CatFinancial, "high",
                                 financial_analyze_margins_text3(df, df.who), {})))

financial_analyze_revenue(df) ==
   LET trend == trend_analysis(df, "revenue")
   IN IF trend = "raised" THEN Raised
      ELSE IF trend = "error" THEN Ok(<<>>)
      ELSE Ok(When(Fact(df, "trend['mom_change_pct'] < -10"),
                   CreateInsight(CatFinancial, "high",
                                 financial_analyze_revenue_text1(df, df.who), {}))
              \o When(Fact(df, "trend['trend'] == 'rising' and trend['mom_change_pct'] > 15"),
                      CreateInsight(CatFinancial, "low",
                                    financial_analyze_revenue_text2(df, df.who), {})))

financial_analyze_expenses(df) ==
   Ok(When(Has(df, "category") /\ Has(df, "amount")
           /\ Fact(df, "len(by_category) > 0 and top_pct > 40"),
           CreateInsight(CatFinancial, "high", financial_analyze_expenses_text1(df, df.who), {}))
      \o When(Has(df, "actual") /\ Has(df, "budget")
              /\ variance_analysis(df, "actual", "budget") = "ok"
              /\ Fact(df, "variance['is_over_budget']"),
              CreateInsight(CatFinancial,
                            IF Fact(df, "variance['total_variance_pct'] > 20")
                            THEN "critical" ELSE "high",
                            financial_analyze_expenses_text2(df, df.who), {})))

financial_analyze_customer_concentration(df) ==
   IF ~Has(df, "customer_id") \/ ~Has(df, "revenue") THEN Ok(<<>>)
   ELSE IF ~Fact(df, "total_revenue > 0") THEN Ok(<<>>)
   ELSE Ok(When(Fact(df, "top_customer_pct > 25"),
                CreateInsight(CatFinancial, "critical",
                              financial_analyze_customer_concentration_text1(df, df.who), {}))
           \o When(Fact(df, "top_3_pct > 60"),
                   CreateInsight(CatFinancial, "high",
                                 financial_analyze_customer_concentration_text2(df, df.who), {})))

financial_analyze_budget_variance(df) ==
   Ok(When(Has(df, "actual") /\ Has(df, "budget")
           /\ variance_analysis(df, "actual", "budget") = "ok"
           /\ Fact(df, "variance['material_variance']")
           /\ Fact(df, "variance['is_over_budget']"),
           CreateInsight(CatFinancial, "high",
                         financial_analyze_budget_variance_text1(df, df.who), {})))

\* _generate_charts_data returns {} without a period column
FinancialChartKeys(df) ==
   IF Has(df, "period") THEN {"revenue_trend", "margin_trend"} ELSE {}

financial_generate_charts_data_raises(df) == Has(df, "period") /\ BadDates(df)

\* FinancialAnalyzer.analyze, then model_dump(); the budget variance helper
\* runs only when the frame has a budget column
FinancialAnalyze(df) ==
   Let(Chain(<<financial_analyze_margins(df), financial_analyze_revenue(df),
                        financial_analyze_expenses(df),
                        financial_analyze_customer_concentration(df),
                        IF Has(df, "budget") THEN financial_analyze_budget_variance(df)
                        ELSE Ok(<<>>)>>, 1),
       LAMBDA steps :
       [raised |-> financial_calculate_kpis_raises(df) \/ steps.raised
                        \/ financial_generate_charts_data_raises(df),
          domain |-> "financial",
          kpis |-> financial_calculate_kpis(df),
          insights |-> steps.insights,
          charts_data |-> FinancialChartKeys(df)])

(***************************************************************************)
(* analyzers/manufacturing_analyzer.py                                     *)
(***************************************************************************)

ManufacturingKpiKeys ==
   {"total_planned_quantity", "total_actual_quantity", "total_good_quantity",
    "production_efficiency_pct", "yield_rate_pct", "rejection_rate_pct", "wastage_rate_pct",
    "total_production_cost", "cost_per_unit", "shortfall_units"}

manufacturing_calculate_kpis(df) == [k \in ManufacturingKpiKeys |-> 0]

\* the overall insight is built only inside the product_name branch
manufacturing_analyze_production_efficiency(df) ==
   IF ~Has(df, "planned_quantity") \/ ~Has(df, "actual_quantity") THEN Ok(<<>>)
   ELSE Ok(When(Fact(df, "overall_efficiency < 85") /\ Has(df, "product_name"),
                CreateInsight(CatManufacturing, "high",
                              manufacturing_analyze_production_efficiency_text1(df, df.who), {}))
           \o When(Has(df, "production_line") /\ Fact(df, "len(low_efficiency_lines) > 0"),
                   CreateInsight(CatManufacturing, "medium",
                                 manufacturing_analyze_production_efficiency_text2(df, df.who),
                                 {})))

manufacturing_analyze_wastage(df) ==
   IF ~Has(df, "wastage_quantity") /\ ~Has(df, "rejected_quantity") THEN Ok(<<>>)
   ELSE Ok(When(Fact(df, "waste_rate > 5"),
                CreateInsight(CatManufacturing,
                              IF Fact(df, "waste_rate > 10") THEN "high" ELSE "medium",
                              manufacturing_analyze_wastage_text1(df, df.who), {}))
           \o When(Has(df, "product_name") /\ Fact(df, "len(high_waste) > 0"),
                   CreateInsight(CatManufacturing, "medium",
                                 manufacturing_analyze_wastage_text2(df, df.who), {})))

\* breakdown_str is empty unless the frame has material_cost and labor_cost
manufacturing_analyze_cost_per_unit(df) ==
   LET breakdown_str ==
          IF Has(df, "material_cost") /\ Has(df, "labor_cost")
          THEN FString(<<L(" Material: "), V(df.num), L("%, Labor: "), V(df.num), L("%")>>)
          ELSE ""
   IN IF ~Has(df, "total_cost") \/ ~Has(df, "quantity_produced") THEN Ok(<<>>)
      ELSE IF ~Has(df, "date") THEN Ok(<<>>)
      ELSE IF BadDates(df) THEN Raised
      ELSE Ok(When(Fact(df, "midpoint >= 3 and cpu_change > 10"),
                   CreateInsight(CatManufacturing, "high",
                                 manufacturing_analyze_cost_per_unit_text1(df, breakdown_str),
                                 {})))

manufacturing_analyze_yield(df) ==
   IF ~Has(df, "good_quantity") \/ ~Has(df, "actual_quantity") THEN Ok(<<>>)
   ELSE Ok(When(Fact(df, "avg_yield < 90"),
                CreateInsight(CatManufacturing, "medium",
                              manufacturing_analyze_yield_text1(df, df.who), {})))

manufacturing_analyze_production_trends(df) ==
   LET trend == trend_analysis(df, "actual_quantity")
   IN IF trend = "raised" THEN Raised
      ELSE IF trend = "error" THEN Ok(<<>>)
      ELSE Ok(When(Fact(df, "trend['trend'] == 'falling' and trend['mom_change_pct'] < -15"),
                   CreateInsight(CatManufacturing, "high",
                                 manufacturing_analyze_production_trends_text1(df, df.who), {}))
              \o When(Fact(df, "trend['trend'] == 'rising' and trend['mom_change_pct'] > 20"),
                      CreateInsight(CatManufacturing, "low",
                                    manufacturing_analyze_production_trends_text2(df, df.who),
                                    {})))

ManufacturingChartKeys ==
   {"efficiency_by_product", "wastage_by_product", "cost_per_unit_trend"}

manufacturing_generate_charts_data_raises(df) ==
   Has(df, "date") /\ Has(df, "cost_per_unit") /\ BadDates(df)

\* ManufacturingAnalyzer.analyze, then model_dump()
ManufacturingAnalyze(df) ==
   Let(Chain(<<manufacturing_analyze_production_efficiency(df),
                        manufacturing_analyze_wastage(df),
                        manufacturing_analyze_cost_per_unit(df),
                        manufacturing_analyze_yield(df),
                        manufacturing_analyze_production_trends(df)>>, 1),
       LAMBDA steps :
       [raised |-> steps.raised \/ manufacturing_generate_charts_data_raises(df),
          domain |-> "manufacturing",
          kpis |-> manufacturing_calculate_kpis(df),
          insights |-> steps.insights,
          charts_data |-> ManufacturingChartKeys])

(***************************************************************************)
(* analyzers/purchase_analyzer.py                                          *)
(***************************************************************************)

PurchaseKpiKeys ==
   {"total_spend", "order_count", "supplier_count", "average_order_value",
    "average_lead_time_days", "on_time_delivery_rate"}

\* without lead_time_days the lead time is computed from two parsed dates
purchase_calculate_kpis_raises(df) ==
   ~Has(df, "lead_time_days") /\ Has(df, "expected_delivery_date") /\ Has(df, "order_date")
   /\ BadDates(df)

purchase_calculate_kpis(df) == [k \in PurchaseKpiKeys |-> 0]

supplier_col(df) == IF Has(df, "supplier_name") THEN "supplier_name" ELSE "supplier"

\* groupby(...).agg({...}) names four columns whether or not the frame has
\* them: a KeyError unless all four exist. One insight per flagged supplier.
purchase_analyze_supplier_performance(df) ==
   LET poor_delivery == IF Fact(df, "len(poor_delivery) > 0") THEN df.names ELSE <<>>
       quality_issues == IF Fact(df, "len(quality_issues) > 0") THEN df.names ELSE <<>>
   IN IF ~Has(df, supplier_col(df)) THEN Ok(<<>>)
      ELSE IF ~(Has(df, "total_amount") /\ Has(df, "is_on_time")
                /\ Has(df, "quality_rejection_rate") /\ Has(df, "lead_time_days"))
           THEN Raised
      ELSE Ok([i \in 1..Len(poor_delivery) |->
                  CreateInsight(CatPurchase, "high",
                                purchase_analyze_supplier_performance_text1(df, poor_delivery[i]),
                                {})]
              \o [i \in 1..Len(quality_issues) |->
                    CreateInsight(CatPurchase, "medium",
                                  purchase_analyze_supplier_performance_text2(df, quality_issues[i]),
                                  {})])

purchase_analyze_supplier_concentration(df) ==
   IF ~Has(df, supplier_col(df)) \/ ~Has(df, "total_amount") THEN Ok(<<>>)
   ELSE IF Fact(df, "total_spend == 0") THEN Ok(<<>>)
   ELSE Ok(When(Fact(df, "top_supplier_pct > 30"),
                CreateInsight(CatPurchase, "critical",
                              purchase_analyze_supplier_concentration_text1(df, df.who), {}))
           \o When(Fact(df, "top_3_pct > 70"),
                   CreateInsight(CatPurchase, "high",
                                 purchase_analyze_supplier_concentration_text2(df, df.who), {})))

purchase_analyze_lead_times(df) ==
   IF ~Has(df, "lead_time_days") THEN Ok(<<>>)
   ELSE Ok(When(Fact(df, "lead_time_std > avg_lead_time * 0.5"),
                CreateInsight(CatPurchase, "medium",
                              purchase_analyze_lead_times_text1(df, df.who), {}))
           \o When(Fact(df, "len(long_lead_orders) > len(df) * 0.2"),
                   CreateInsight(CatPurchase, "medium",
                                 purchase_analyze_lead_times_text2(df, df.who), {})))

\* the impact of the price-increase insight reads df['quantity']
purchase_analyze_price_trends(df) ==
   IF ~Has(df, "unit_price") \/ ~Has(df, "date") THEN Ok(<<>>)
   ELSE IF BadDates(df) THEN Raised
   ELSE IF ~Fact(df, "len(monthly_prices) >= 3") THEN Ok(<<>>)
   ELSE IF Fact(df, "price_change > 10") /\ ~Has(df, "quantity") THEN Raised
   ELSE Ok(When(Fact(df, "price_change > 10"),
                CreateInsight(CatPurchase, "high",
                              purchase_analyze_price_trends_text1(df, df.who), {}))
           \o When(Fact(df, "price_change < -10"),
                   CreateInsight(CatPurchase, "low",
                                 purchase_analyze_price_trends_text2(df, df.who), {})))

purchase_analyze_delivery_performance(df) ==
   IF ~Has(df, "is_on_time") THEN Ok(<<>>)
   ELSE Ok(When(Fact(df, "on_time_rate < 85"),
                CreateInsight(CatPurchase, "high",
                              purchase_analyze_delivery_performance_text1(df, df.who), {}))
           \o When(Fact(df, "len(late_deliveries) > 0") /\ Has(df, "days_late"),
                   CreateInsight(CatPurchase, "medium",
                                 purchase_analyze_delivery_performance_text2(df, df.who), {})))

PurchaseChartKeys == {"spend_by_supplier", "lead_time_trend", "delivery_performance"}

purchase_generate_charts_data_raises(df) ==
   Has(df, "date") /\ Has(df, "lead_time_days") /\ BadDates(df)

\* PurchaseAnalyzer.analyze, then model_dump()
PurchaseAnalyze(df) ==
   Let(Chain(<<purchase_analyze_supplier_performance(df),
                        purchase_analyze_supplier_concentration(df),
                        purchase_analyze_lead_times(df),
                        purchase_analyze_price_trends(df),
                        purchase_analyze_delivery_performance(df)>>, 1),
       LAMBDA steps :
       [raised |-> purchase_calculate_kpis_raises(df) \/ steps.raised
                        \/ purchase_generate_charts_data_raises(df),
          domain |-> "purchase",
          kpis |-> purchase_calculate_kpis(df),
          insights |-> steps.insights,
          charts_data |-> PurchaseChartKeys])

\* analyzer_map[dt_enum](df_normalized).analyze()
Analyze(data_type, df) ==
   CASE data_type = "financial" -> FinancialAnalyze(df)
     [] data_type = "manufacturing" -> ManufacturingAnalyze(df)
     [] data_type = "inventory" -> InventoryAnalyze(df)
     [] data_type = "sales" -> SalesAnalyze(df)
     [] data_type = "purchase" -> PurchaseAnalyze(df)

(***************************************************************************)
(* engines/insight_engine.py                                               *)
(*                                                                         *)
(* A dict is a sequence of [key, value] records in insertion order.        *)
(***************************************************************************)

Keys(dict) == {dict[i].key : i \in 1..Len(dict)}

\* the number of leading characters of a finding that make its key
KeyLen == 100

\* severity_order.get(x.severity.value, 4)
severity_order(severity) ==
   CASE severity = "critical" -> 0
     [] severity = "high" -> 1
     [] severity = "medium" -> 2
     [] severity = "low" -> 3
     [] OTHER -> 4

RECURSIVE Flatten(_, _)
\* the first loop of generate_insights: every domain's insights, in the
\* dict's order; Insight(**insight_data) rebuilds the dumped insight. A
\* value that is not a dict, or is a dict without 'insights', gives none.
Flatten(analysis_results, i) ==
   IF i > Len(analysis_results) THEN <<>>
   ELSE LET result_i == analysis_results[i].value
        IN (IF "insights" \in DOMAIN result_i THEN result_i.insights ELSE <<>>)
           \o Flatten(analysis_results, i + 1)

\* insight.finding[:100].lower().strip()
DedupKey(insight) == Strip(Lower(Take(insight.finding, KeyLen)))

\* a pass that does not look into seen
DedupStepUnseen(insight, key, seen) ==
   IF key # ""
   THEN [unique |-> <<insight>>, seen |-> seen \cup {key}]
   ELSE [unique |-> <<>>, seen |-> seen]

\* one pass of the loop of _deduplicate_insights: "if key and key not in
\* seen", then seen.add(key) and unique.append(insight)
DedupStep(insight, key, seen) ==
   IF key # "" /\ key \notin seen
   THEN [unique |-> <<insight>>, seen |-> seen \cup {key}]
   ELSE [unique |-> <<>>, seen |-> seen]

RECURSIVE DedupFrom(_, _, _, _, _)
\* the passes lo..hi of the loop, entered with seen: what they append to
\* unique and the seen they leave (the first half of the passes, then
\* the second); keys[i] is the key of insights[i]
DedupFrom(insights, keys, lo, hi, seen) ==
   IF lo > hi THEN [unique |-> <<>>, seen |-> seen]
   ELSE IF lo = hi THEN DedupStep(insights[lo], keys[lo], seen)
   ELSE Let(DedupFrom(insights, keys, lo, (lo + hi) \div 2, seen), LAMBDA first :
        Let(DedupFrom(insights, keys, (lo + hi) \div 2 + 1, hi, first.seen), LAMBDA second :
           [unique |-> first.unique \o second.unique, seen |-> second.seen]))

\* _deduplicate_insights
DeduplicateInsights(insights) ==
   Let([i \in 1..Len(insights) |-> DedupKey(insights[i])], LAMBDA keys :
      DedupFrom(insights, keys, 1, Len(insights), {}).unique)

\* the sort key (severity_order, category.value) of a before that of b
SortKeyLess(a, b) ==
   \/ severity_order(a.severity) < severity_order(b.severity)
   \/ /\ severity_order(a.severity) = severity_order(b.severity)
      /\ StrLess(a.category, b.category)

\* x put into sorted just before its element at place first, at the end if
\* first is past the end
InsertAt(sorted, first, x) ==
   SubSeq(sorted, 1, first - 1) \o <<x>> \o SubSeq(sorted, first, Len(sorted))

\* the least of a set of places, or the place past the end if there is none
FirstOf(places, end) ==
   IF places = {} THEN end + 1 ELSE CHOOSE i \in places : \A j \in places : i <= j

\* one insertion of the mutated sort: before the first element that is
\* not smaller, so ahead of its equals
InsertBeforeEquals(sorted, x) ==
   Let({i \in 1..Len(sorted) : ~SortKeyLess(sorted[i], x)}, LAMBDA notbefore :
      InsertAt(sorted, FirstOf(notbefore, Len(sorted)), x))

\* one insertion of list.sort, which is stable: x goes before the first
\* element that is greater, so after its equals
InsertStable(sorted, x) ==
   Let({i \in 1..Len(sorted) : SortKeyLess(x, sorted[i])}, LAMBDA after :
      InsertAt(sorted, FirstOf(after, Len(sorted)), x))

RECURSIVE SortFrom(_, _, _, _)
\* sorted with the elements lo..hi of insights inserted one after the
\* other (the first half of them, then the second)
SortFrom(insights, lo, hi, sorted) ==
   IF lo > hi THEN sorted
   ELSE IF lo = hi THEN InsertStable(sorted, insights[lo])
   ELSE Let(SortFrom(insights, lo, (lo + hi) \div 2, sorted), LAMBDA first :
           SortFrom(insights, (lo + hi) \div 2 + 1, hi, first))

\* self._insights.sort(key=...)
SortInsights(insights) == SortFrom(insights, 1, Len(insights), <<>>)

\* generate_insights(analysis_results)
GenerateInsights(analysis_results) ==
   Let(Flatten(analysis_results, 1), LAMBDA all_insights :
   Let(DeduplicateInsights(all_insights), LAMBDA unique : SortInsights(unique)))

\* categorize_insights(insights).get(category, [])
Categorized(insights, category) == SelectSeq(insights, LAMBDA x : x.category = category)

\* generate_executive_summary(insights, kpis): kpis is the dict the caller
\* passes, here the one keyed by domain
GenerateExecutiveSummary(insights, kpis) ==
   LET critical == SelectSeq(insights, LAMBDA x : x.severity = "critical")
       high == SelectSeq(insights, LAMBDA x : x.severity = "high")
       lead == IF Len(critical) > 0
               THEN [i \in 1..(IF Len(critical) < 2 THEN Len(critical) ELSE 2) |->
                       "CRITICAL: " \o critical[i].finding]
               ELSE IF Len(high) > 0 THEN <<"HIGH PRIORITY: " \o high[1].finding>>
               ELSE <<>>
       k(name, line) == IF name \in Keys(kpis) THEN <<line>> ELSE <<>>
       context == k("total_revenue", "Total Revenue: $")
                  \o k("net_margin_pct", "Net Margin: ")
                  \o k("revenue_growth", "Revenue Growth: ")
                  \o k("total_stock_value", "Inventory Value: $")
                  \o k("days_inventory_outstanding", "Days Inventory: ")
       urgent == IF Len(insights) > 0
                 THEN <<"IMMEDIATE ACTION: " \o Take(insights[1].action, 100) \o "...">>
                 ELSE <<>>
       summary == lead \o context \o urgent
   IN SubSeq(summary, 1, IF Len(summary) < 7 THEN Len(summary) ELSE 7)

(***************************************************************************)
(* engines/recommendation_engine.py                                        *)
(***************************************************************************)

\* An Insight object has the attributes the engines read; a plain dict has
\* none of them (insight.severity on a dict is an AttributeError).
IsInsightObject(x) == "category" \in DOMAIN x

priority_map(severity) ==
   CASE severity = "critical" -> "immediate"
     [] severity = "high" -> "short_term"
     [] severity = "medium" -> "short_term"
     [] severity = "low" -> "medium_term"

timeline_map(severity) ==
   CASE severity = "critical" -> "0-30 days"
     [] severity = "high" -> "0-30 days"
     [] severity = "medium" -> "1-3 months"
     [] severity = "low" -> "3-6 months"

\* _generate_action_components and the four per-category helpers: (what, how)
generate_action_components(insight) ==
   Let(Lower(insight.finding), LAMBDA finding :
      CASE insight.category = CatFinancial ->
              (IF Contains(finding, "margin")
               THEN <<"Improve gross margin by 5-10pp", "1) Renegotiate top 5 supplier contracts">>
               ELSE IF Contains(finding, "revenue")
               THEN <<"Reverse revenue decline", "1) Contact top customers">>
               ELSE <<insight.action, "1) Analyze">>)
        [] insight.category = CatManufacturing ->
              (IF Contains(finding, "efficiency")
               THEN <<"Improve efficiency to 95%", "1) Root cause analysis">>
               ELSE IF Contains(finding, "wastage")
               THEN <<"Reduce wastage below 5%", "1) QC audit">>
               ELSE <<insight.action, "1) Diagnose">>)
        [] insight.category = CatInventory ->
              (IF Contains(finding, "dead")
               THEN <<"Liquidate dead stock", "1) Flash sale at 40% off">>
               ELSE <<insight.action, "1) Review">>)
        [] insight.category = CatSales ->
              (IF Contains(finding, "concentration")
               THEN <<"Diversify customer base", "1) Dedicated account managers">>
               ELSE <<insight.action, "1) Analyze">>)
        [] OTHER -> <<insight.action, "Step 1: Analyze">>)

\* _estimate_financial_impact: which metric the estimate is taken from
estimate_financial_impact(insight) ==
   IF "value" \in insight.metrics THEN "value * 0.3"
   ELSE IF "dead_value" \in insight.metrics THEN "dead_value * 0.5"
   ELSE IF "excess_value" \in insight.metrics THEN "excess_value * 0.2"
   ELSE "None"

\* _create_recommendation(insight), for an Insight object
create_recommendation(insight) ==
   Let(generate_action_components(insight), LAMBDA components :
      [title |-> Upper(insight.severity) \o ": " \o Take(insight.finding, 50) \o "...",
       what |-> components[1],
       why |-> insight.impact,
       how |-> components[2],
       impact |-> "Expected " \o Take(insight.action, 100) \o "...",
       priority |-> priority_map(insight.severity),
       timeline |-> timeline_map(insight.severity),
       estimated_savings |-> estimate_financial_impact(insight)])

\* generate_recommendations(insights): one recommendation per element, and
\* an AttributeError at the first element that is a dict
generate_recommendations(insights) ==
   IF \E i \in 1..Len(insights) : ~IsInsightObject(insights[i])
   THEN [raised |-> TRUE, recommendations |-> <<>>]
   ELSE [raised |-> FALSE,
         recommendations |-> [i \in 1..Len(insights) |-> create_recommendation(insights[i])]]

(***************************************************************************)
(* engines/risk_engine.py                                                  *)
(***************************************************************************)

\* _insight_to_risk
insight_to_risk(insight) ==
   [title |-> "Risk: " \o Take(insight.finding, 80),
    category |-> insight.category,
    description |-> insight.finding,
    probability |-> IF insight.severity = "critical" THEN "High" ELSE "Medium-High",
    financial_impact |-> insight.impact,
    time_to_impact |-> "3-6 months",
    severity |-> insight.severity,
    mitigation |-> insight.action]

HasKpi(kpis, name) == name \in DOMAIN kpis

RECURSIVE identify_kpi_risks(_, _)
\* _identify_kpi_risks(analysis_results), from result i on
identify_kpi_risks(analysis_results, i) ==
   IF i > Len(analysis_results) THEN <<>>
   ELSE LET kpis == analysis_results[i].value.kpis
            margin ==
               IF HasKpi(kpis, "net_margin_pct") /\ kpis["net_margin_pct"] < 5
               THEN <<[title |-> "Margin Erosion Risk", category |-> CatFinancial,
                       description |-> "Net margin at - critically low",
                       probability |-> "High",
                       financial_impact |-> "Business at risk of losses",
                       time_to_impact |-> "1-3 months", severity |-> "critical",
                       mitigation |-> "Immediate cost reduction and pricing review"]>>
               ELSE <<>>
            stock ==
               IF HasKpi(kpis, "days_inventory_outstanding")
                  /\ kpis["days_inventory_outstanding"] > 90
               THEN <<[title |-> "Inventory Obsolescence Risk", category |-> CatInventory,
                       description |-> "Days inventory at - too high",
                       probability |-> "Medium-High",
                       financial_impact |-> "$ at risk",
                       time_to_impact |-> "3-6 months", severity |-> "high",
                       mitigation |-> "Accelerate turnover, reduce stock levels"]>>
               ELSE <<>>
        IN margin \o stock \o identify_kpi_risks(analysis_results, i + 1)

\* one pass of the loop of _deduplicate_risks, keyed by
\* title[:50].lower().strip()
RiskKey(risk) == Strip(Lower(Take(risk.title, 50)))

\* _deduplicate_risks: the loop of _deduplicate_insights on the risks'
\* keys
DeduplicateRisks(risks) ==
   Let([i \in 1..Len(risks) |-> RiskKey(risks[i])], LAMBDA keys :
      DedupFrom(risks, keys, 1, Len(risks), {}).unique)

\* identify_risks without the test of the severity
identify_risks_all_severities(analysis_results, insights) ==
   LET risks == [i \in 1..Len(insights) |-> insight_to_risk(insights[i])]
                \o identify_kpi_risks(analysis_results, 1)
   IN DeduplicateRisks(risks)

\* identify_risks(analysis_results, insights)
identify_risks(analysis_results, insights) ==
   LET severe == SelectSeq(insights, LAMBDA x : x.severity \in {"critical", "high"})
       risks == [i \in 1..Len(severe) |-> insight_to_risk(severe[i])]
                \o identify_kpi_risks(analysis_results, 1)
   IN DeduplicateRisks(risks)

(***************************************************************************)
(* engines/insight_engine.py: the RecommendationEngine and the RiskEngine  *)
(* that the engines package exports                                        *)
(***************************************************************************)

\* priority_map of the exported RecommendationEngine._create_recommendation
insight_engine_priority_map(severity) ==
   CASE severity = "critical" -> "immediate"
     [] severity = "high" -> "short_term"
     [] severity = "medium" -> "short_term"
     [] severity = "low" -> "medium_term"

\* its timeline_map
insight_engine_timeline_map(severity) ==
   CASE severity = "critical" -> "0-30 days"
     [] severity = "high" -> "0-30 days"
     [] severity = "medium" -> "1-3 months"
     [] severity = "low" -> "3-6 months"

\* its _generate_action_components and per-category helpers: (what, how)
insight_engine_generate_action_components(insight) ==
   Let(Lower(insight.finding), LAMBDA finding :
      CASE insight.category = CatFinancial ->
              (IF Contains(finding, "margin")
               THEN <<"Improve gross margin by 5-10 percentage points",
                      "1) Renegotiate top 5 supplier contracts within 30 days">>
               ELSE IF Contains(finding, "revenue")
               THEN <<"Reverse revenue decline and restore growth",
                      "1) Contact top 20 customers to identify issues">>
               ELSE IF Contains(finding, "expense")
               THEN <<"Reduce expenses to budget", "1) Freeze discretionary spending immediately">>
               ELSE <<insight.action, "1) Analyze the issue">>)
        [] insight.category = CatManufacturing ->
              (IF Contains(finding, "efficiency")
               THEN <<"Improve production efficiency to 95%",
                      "1) Root cause analysis on worst performing lines">>
               ELSE IF Contains(finding, "wastage")
               THEN <<"Reduce wastage to below 5%", "1) Quality control audit">>
               ELSE <<insight.action, "1) Diagnose root cause">>)
        [] insight.category = CatInventory ->
              (IF Contains(finding, "dead") \/ Contains(finding, "stagnant")
               THEN <<"Liquidate dead stock and recover capital",
                      "1) Run flash sale at 40% discount on top SKUs">>
               ELSE IF Contains(finding, "overstock")
               THEN <<"Reduce overstock by 50%", "1) Reduce reorder quantities by 40%">>
               ELSE <<insight.action, "1) Review inventory levels">>)
        [] insight.category = CatSales ->
              (IF Contains(finding, "concentration") \/ Contains(finding, "customer")
               THEN <<"Diversify customer base to reduce concentration risk",
                      "1) Assign dedicated account managers to top customers">>
               ELSE IF Contains(finding, "margin")
               THEN <<"Improve product margins", "1) Review pricing for bottom performers">>
               ELSE <<insight.action, "1) Analyze sales data">>)
        [] OTHER ->
              <<insight.action,
                "Step 1: Analyze " \o Take(insight.finding, 30) \o "\nStep 2: Implement "
                   \o Take(insight.action, 50) \o "\nStep 3: Track results">>)

\* its _estimate_financial_impact: which metric the estimate is taken from
insight_engine_estimate_financial_impact(insight) ==
   IF "value" \in insight.metrics THEN "value * 0.3"
   ELSE IF "dead_value" \in insight.metrics THEN "dead_value * 0.5"
   ELSE IF "excess_value" \in insight.metrics THEN "excess_value * 0.2"
   ELSE IF "variance" \in insight.metrics THEN "abs(variance) * 0.5"
   ELSE "None"

\* its _create_recommendation(insight)
insight_engine_create_recommendation(insight) ==
   Let(insight_engine_generate_action_components(insight), LAMBDA components :
      [title |-> Upper(insight.severity) \o ": " \o Take(insight.finding, 50) \o "...",
       what |-> components[1],
       why |-> insight.impact,
       how |-> components[2],
       impact |-> "Expected " \o Take(insight.action, 100) \o "...",
       priority |-> insight_engine_priority_map(insight.severity),
       timeline |-> insight_engine_timeline_map(insight.severity),
       estimated_savings |-> insight_engine_estimate_financial_impact(insight)])

\* its generate_recommendations(insights), for Insight objects
insight_engine_generate_recommendations(insights) ==
   [i \in 1..Len(insights) |-> insight_engine_create_recommendation(insights[i])]

RECURSIVE insight_engine_identify_kpi_risks(_, _)
\* _identify_kpi_risks of the exported RiskEngine, from result i on: the
\* net margin test only
insight_engine_identify_kpi_risks(analysis_results, i) ==
   IF i > Len(analysis_results) THEN <<>>
   ELSE LET kpis == analysis_results[i].value.kpis
            margin ==
               IF HasKpi(kpis, "net_margin_pct") /\ kpis["net_margin_pct"] < 5
               THEN <<[title |-> "Margin Erosion Risk", category |-> CatFinancial,
                       description |-> "Net margin at - critically low",
                       probability |-> "High",
                       financial_impact |-> "Business at risk of losses",
                       time_to_impact |-> "1-3 months", severity |-> "critical",
                       mitigation |-> "Immediate cost reduction and pricing review"]>>
               ELSE <<>>
        IN margin \o insight_engine_identify_kpi_risks(analysis_results, i + 1)

\* identify_risks of the exported RiskEngine; its _insight_to_risk and
\* _deduplicate_risks are those of engines/risk_engine.py word for word
insight_engine_identify_risks(analysis_results, insights) ==
   LET severe == SelectSeq(insights, LAMBDA x : x.severity \in {"critical", "high"})
       risks == [i \in 1..Len(severe) |-> insight_to_risk(severe[i])]
                \o insight_engine_identify_kpi_risks(analysis_results, 1)
   IN DeduplicateRisks(risks)

RECURSIVE MergeKpis(_, _)
\* ExecutiveReportGenerator.generate: kpis.update(result['kpis']) for every
\* result, as the entries of the merged dict (the KPI names are distinct
\* across the domains)
MergeKpis(analysis_results, i) ==
   IF i > Len(analysis_results) THEN <<>>
   ELSE LET kpis == analysis_results[i].value.kpis
            order == analysis_results[i].value.kpi_order
        IN [k \in 1..Len(order) |-> [key |-> order[k], value |-> kpis[order[k]]]]
           \o MergeKpis(analysis_results, i + 1)

(***************************************************************************)
(* agent_modules/orchestrator.py: analyze_multi_file                       *)
(***************************************************************************)

\* dt_map.get(data_type_str.lower()): the DataType, or "" for None
dt_map(data_type_str) ==
   IF Lower(data_type_str) \in DataTypes THEN Lower(data_type_str) ELSE ""

\* schema_match.confidence < 0.5, on hundredths
LowConfidence(confidence) == confidence < 50

\* the gate that lets every confidence pass
LowConfidenceNever(confidence) == FALSE

\* the gate that lets every count pass
TooFewRequiredNever(required_matched, required_count) == FALSE

\* len(required_matched) / max(len(required_fields), 1) < 0.5
TooFewRequired(required_matched, required_count) ==
   2 * required_matched < (IF required_count > 1 THEN required_count ELSE 1)

Skipped(why) == [enabled |-> FALSE, why |-> why]

\* a loop body that lets the exception of a step go unnoticed
ExceptionCaughtNever(step) == FALSE

\* "except Exception: continue": the step raised and the entry is skipped
ExceptionCaught(step) == step.raised

\* the body of the per-domain loop up to the analyzer's result: what one
\* entry of data_frames comes to. "why" names the continue that was taken.
ProcessEntry(data_type_str, df) ==
   Let(dt_map(data_type_str), LAMBDA dt_enum :
   IF dt_enum = "" THEN Skipped("unknown")
   ELSE Let(CreateSchemaMatch(df, dt_enum), LAMBDA schema_match :
        IF ExceptionCaught(schema_match) THEN Skipped("exception")
        ELSE IF LowConfidence(schema_match.confidence) THEN Skipped("confidence")
        ELSE IF TooFewRequired(
                   Cardinality(RequiredMatched(schema_match.column_mappings, dt_enum)),
                   Len(GetRequiredFields(dt_enum)))
             THEN Skipped("required")
        ELSE Let(Analyze(dt_enum, NormalizeColumns(df, dt_enum)), LAMBDA result :
             IF ExceptionCaught(result) THEN Skipped("exception")
             ELSE [enabled |-> TRUE, why |-> "", result |-> result])))

\* get_category(item), lower-cased
get_category(item) == IF IsInsightObject(item) THEN Lower(item.category) ELSE ""

\* a threshold that is reached one issue early
LenAtLeast(issues, n) == issues >= n

\* len(issues) > n
LenExceeds(issues, n) == issues > n

\* _generate_cross_domain_insights(all_insights): plain dicts
generate_cross_domain_insights(all_insights) ==
   Let([i \in 1..Len(all_insights) |-> get_category(all_insights[i])], LAMBDA categories :
   LET count(word) ==
          Cardinality({i \in 1..Len(all_insights) : Contains(categories[i], word)})
       sales_issues ==
          Cardinality({i \in 1..Len(all_insights) :
                         \/ Contains(categories[i], "sales")
                         \/ Contains(categories[i], "revenue")})
   IN When(LenExceeds(count("inventory"), 2) /\ LenExceeds(sales_issues, 0),
           [finding |-> "Multiple inventory issues detected alongside sales concerns",
            impact |-> "Potential inventory-sales mismatch affecting working capital",
            action |-> "Conduct cross-functional review of inventory and sales planning",
            severity |-> "medium"])
      \o When(LenExceeds(count("financial"), 1) /\ LenExceeds(count("manufacturing"), 1),
              [finding |-> "Financial costs correlated with manufacturing issues",
               impact |-> "Production inefficiencies may be driving up costs",
               action |-> "Analyze cost drivers in manufacturing process",
               severity |-> "medium"])
      \o When(LenExceeds(count("inventory"), 1) /\ LenExceeds(count("purchase"), 0),
              [finding |-> "Inventory issues may relate to purchase/supplier performance",
               impact |-> "Supplier delays or quality issues affecting inventory levels",
               action |-> "Review supplier performance metrics and lead times",
               severity |-> "low"]))

\* the five lower-case names insights_by_category is built for, with the
\* category each takes its insights from
CategoryOfDomain ==
   <<<<"financial", CatFinancial>>, <<"manufacturing", CatManufacturing>>,
     <<"inventory", CatInventory>>, <<"sales", CatSales>>, <<"purchase", CatPurchase>>>>

RECURSIVE BuildInsightsByCategory(_, _, _)
\* the five "if '<name>' in enabled_domains" statements
BuildInsightsByCategory(enabled, insights_in, i) ==
   IF i > Len(CategoryOfDomain) THEN <<>>
   ELSE (IF InSeq(CategoryOfDomain[i][1], enabled)
         THEN <<[key |-> CategoryOfDomain[i][1],
                 value |-> Categorized(insights_in, CategoryOfDomain[i][2])]>>
         ELSE <<>>)
        \o BuildInsightsByCategory(enabled, insights_in, i + 1)

\* the result returned when no domain is enabled
EmptyResult ==
   [data_types |-> <<>>, enabled_domains |-> <<>>,
    executive_summary |->
       <<"No valid data detected. Please upload files with required columns.">>,
    kpis |-> <<>>, insights_by_category |-> <<>>, cross_domain_insights |-> <<>>,
    critical_risks |-> <<>>, action_plan |-> <<>>, charts_data |-> <<>>,
    total_insights |-> 0, critical_count |-> 0, files_analyzed |-> 0]

(***************************************************************************)
(* The inputs of analyze_multi_file                                        *)
(***************************************************************************)

\* the most files one call is given
MaxFiles == 2

Frame(cols, facts) ==
   [kind |-> "table", cols |-> cols, facts |-> facts, who |-> "ACME", names |-> <<"A", "B">>,
    num |-> "12.5"]

\* a frame read without a header row: its labels are 0, 1, 2, ...
HeaderlessFrame ==
   [kind |-> "int_labels", cols |-> <<>>, facts |-> {}, who |-> "", names |-> <<>>,
    num |-> "0"]

\* the months of the frame can be compared, and the latest is more than 10%
\* below the one before
FallingFacts == {"'error' not in trend", "trend['mom_change_pct'] < -10"}

InventoryFrames ==
   {Frame(<<"SKU", "Qty", "unit_cost", "date", "last_movement_date", "days_of_stock",
            "receipt_date">>,
          {"len(dead_stock) > 0", "total_dead_value > 100000", "len(overstock) > 0",
           "total_value > 0 and old_stock_pct > 30"}),
    Frame(<<"sku", "quantity", "unit_cost", "last_movement", "days_of_stock">>,
          {"len(dead_stock) > 0", "len(overstock) > 0"}),
    Frame(<<"sku", "quantity", "unit_cost">>, {}),
    Frame(<<"item", "category", "quantity", "quantity_sold", "unit_cost">>,
          {"len(low_turnover) > 0"}),
    Frame(<<"sku", "warehouse">>, {}),
    HeaderlessFrame}

SalesFrames ==
   {Frame(<<"order_id", "product_id", "quantity", "total_amount", "customer_id">>,
          {"top_customer_pct > 30.0", "concentration == 'HIGH'"}),
    Frame(<<"order_id", "product_id", "quantity", "total_amount", "customer_id">>,
          {"len(df) == 0", "total == 0"}),
    Frame(<<"order_id", "product_id">>, {}),
    Frame(<<"order_id", "customer", "total_amount">>, {"top_customer_pct > 30.0"}),
    Frame(<<"order_id", "product_id", "quantity", "total_amount", "date">>, FallingFacts),
    Frame(<<"order_id", "product_id", "quantity", "total_amount", "order_date">>,
          FallingFacts)}

FinancialFrames ==
   {Frame(<<"revenue", "cogs", "net_income", "period">>,
          {"len(df) >= 3", "margin_change < -5", "recent_margin < 20",
           "len(df) >= 2 and current_net < 5", "total_revenue > 0", "net_margin_pct < 5"}),
    Frame(<<"revenue", "period">>, {"len(df) >= 3", "total_revenue > 0"}),
    Frame(<<"revenue", "customer_id">>, {"total_revenue > 0", "top_customer_pct > 25"}),
    Frame(<<"Posting Date", "revenue">>, {"pd.to_datetime raises", "total_revenue > 0"}),
    Frame(<<"amount", "category">>, {"len(by_category) > 0 and top_pct > 40"}),
    Frame(<<"revenue", "date">>, FallingFacts \cup {"total_revenue > 0"}),
    Frame(<<"revenue", "month">>, FallingFacts \cup {"total_revenue > 0"})}

ManufacturingFrames ==
   {Frame(<<"product_id", "product_name", "planned_quantity", "actual_quantity", "wastage",
            "good_quantity">>,
          {"overall_efficiency < 85", "waste_rate > 5", "waste_rate > 10", "avg_yield < 90"}),
    Frame(<<"product_id", "planned_quantity", "actual_quantity">>, {"overall_efficiency < 85"}),
    Frame(<<"product_id", "line">>, {})}

PurchaseFrames ==
   {Frame(<<"po_number", "supplier_id", "quantity_ordered", "unit_price", "is_on_time">>,
          {"on_time_rate < 85", "len(late_deliveries) > 0"}),
    Frame(<<"po_number", "supplier", "quantity_ordered", "unit_price">>, {}),
    Frame(<<"po_number", "vendor", "total_amount", "is_on_time", "quality_rejection_rate",
            "lead_time_days">>,
          {"len(poor_delivery) > 0", "top_supplier_pct > 30"}),
    Frame(<<"po_number">>, {})}

FramesOf(data_type) ==
   CASE data_type = "financial" -> FinancialFrames
     [] data_type = "manufacturing" -> ManufacturingFrames
     [] data_type = "inventory" -> InventoryFrames
     [] data_type = "sales" -> SalesFrames
     [] data_type = "purchase" -> PurchaseFrames

\* the entries a caller may put in data_frames: every frame under the
\* lower-case name of its data type, some under a key in another case, and
\* one under a key that names no data type
Uploads ==
   UNION {{[key |-> dt, df |-> f] : f \in FramesOf(dt)} : dt \in DataTypes}
   \cup {[key |-> "Sales", df |-> f] : f \in SalesFrames}
   \cup {[key |-> "INVENTORY", df |-> f] : f \in InventoryFrames}
   \cup {[key |-> "budget", df |-> f] : f \in FinancialFrames}

(***************************************************************************)
(* Frames with every column an analyzer looks for                          *)
(***************************************************************************)

\* the most frames one run of the analyzers is given
MaxAnalysed == 2

RichFrame(cols, facts, who, names) ==
   [kind |-> "table", cols |-> cols, facts |-> facts, who |-> who, names |-> names,
    num |-> "12.5"]

\* the label of the top group, the labels a per-group loop flags: a name,
\* or the empty string of a blank cell
TopLabels == {"ACME", ""}
GroupLabels == {<<"A", "B">>, <<"">>}

\* the frames of these columns and facts, with every labelling
Labelled(cols, facts) ==
   {RichFrame(cols, facts, who, names) : who \in TopLabels, names \in GroupLabels}

InventoryColumns ==
   <<"product_id", "quantity", "unit_cost", "sku", "category", "stock_value", "cogs",
     "average_daily_usage", "days_of_stock", "days_since_movement", "receipt_date",
     "last_movement_date">>

InventoryFacts ==
   {"days_inventory > 90", "inventory_turnover > 0", "len(dead_stock) > 0",
    "len(high_stock_no_movement) > 10", "len(low_turnover) > 0", "len(overstock) > 0",
    "total_dead_value > 100000", "total_value > 0 and old_stock_pct > 30"}

\* (with a quantity_sold column _analyze_turnover raises a KeyError)
RichInventoryFrames ==
   Labelled(InventoryColumns, InventoryFacts)
   \cup {RichFrame(InventoryColumns \o <<"quantity_sold">>, InventoryFacts, "ACME", <<"A", "B">>)}
   \cup {RichFrame(InventoryColumns, InventoryFacts \ {"total_dead_value > 100000"},
                   "ACME", <<"A", "B">>)}

SalesColumns ==
   <<"order_id", "product_id", "quantity", "total_amount", "customer_id", "date", "discount",
     "discount_amount">>

SalesFacts ==
   {"'error' not in trend", "avg_discount > 15", "concentration == 'HIGH'",
    "customer_count >= 5 and top_5_pct > 70", "len(declining) > 0",
    "len(high_discount_orders) > 10", "product_count > 20 and bottom_10_pct < 5",
    "top_5_pct > 60", "top_customer_pct > 30.0",
    "trend['data_points'] >= 4 and volatility > 30", "trend['mom_change_pct'] < -10",
    "trend['qoq_change_pct'] > 20"}

RichSalesFrames ==
   Labelled(SalesColumns, SalesFacts)
   \cup {RichFrame(SalesColumns, SalesFacts \ {"concentration == 'HIGH'"}, "ACME", <<"A", "B">>)}

FinancialColumns ==
   <<"revenue", "cost_of_goods_sold", "net_income", "period", "date", "actual", "amount",
     "budget", "category", "customer_id", "gross_margin_pct">>

\* the facts of a falling and of a rising revenue
FinancialFacts ==
   {"'error' not in trend", "len(by_category) > 0 and top_pct > 40",
    "len(df) >= 2 and current_net < 5", "len(df) >= 3", "margin_change < -5",
    "net_margin_pct < 5", "recent_margin < 20", "top_3_pct > 60", "top_customer_pct > 25",
    "total_revenue > 0", "variance['is_over_budget']", "variance['material_variance']",
    "variance['total_variance_pct'] > 20"}

RichFinancialFrames ==
   Labelled(FinancialColumns, FinancialFacts \cup {"trend['mom_change_pct'] < -10"})
   \cup Labelled(FinancialColumns,
                 FinancialFacts \cup {"trend['trend'] == 'rising' and trend['mom_change_pct'] > 15"})
   \cup {RichFrame(FinancialColumns, FinancialFacts \ {"variance['total_variance_pct'] > 20"},
                   "ACME", <<"A", "B">>)}

ManufacturingColumns ==
   <<"product_id", "planned_quantity", "actual_quantity", "product_name", "production_line",
     "date", "good_quantity", "quantity_produced", "rejected_quantity", "wastage_quantity",
     "cost_per_unit", "labor_cost", "material_cost", "total_cost">>

ManufacturingFacts ==
   {"'error' not in trend", "avg_yield < 90", "len(high_waste) > 0",
    "len(low_efficiency_lines) > 0", "midpoint >= 3 and cpu_change > 10",
    "overall_efficiency < 85", "waste_rate > 10", "waste_rate > 5"}

RichManufacturingFrames ==
   Labelled(ManufacturingColumns,
            ManufacturingFacts
               \cup {"trend['trend'] == 'falling' and trend['mom_change_pct'] < -15"})
   \cup Labelled(ManufacturingColumns,
                 ManufacturingFacts
                    \cup {"trend['trend'] == 'rising' and trend['mom_change_pct'] > 20"})
   \cup {RichFrame(ManufacturingColumns, ManufacturingFacts \ {"waste_rate > 10"},
                   "ACME", <<"A", "B">>)}

PurchaseColumns ==
   <<"po_number", "supplier_id", "quantity_ordered", "unit_price", "supplier_name", "date",
     "order_date", "expected_delivery_date", "days_late", "is_on_time", "lead_time_days",
     "quality_rejection_rate", "quantity", "total_amount">>

PurchaseFacts ==
   {"lead_time_std > avg_lead_time * 0.5", "len(late_deliveries) > 0",
    "len(long_lead_orders) > len(df) * 0.2", "len(monthly_prices) >= 3",
    "len(poor_delivery) > 0", "len(quality_issues) > 0", "on_time_rate < 85",
    "top_3_pct > 70", "top_supplier_pct > 30"}

RichPurchaseFrames ==
   Labelled(PurchaseColumns, PurchaseFacts \cup {"price_change > 10"})
   \cup Labelled(PurchaseColumns, PurchaseFacts \cup {"price_change < -10"})

RichFramesOf(data_type) ==
   CASE data_type = "financial" -> RichFinancialFrames
     [] data_type = "manufacturing" -> RichManufacturingFrames
     [] data_type = "inventory" -> RichInventoryFrames
     [] data_type = "sales" -> RichSalesFrames
     [] data_type = "purchase" -> RichPurchaseFrames

RichUploads == UNION {{[key |-> dt, df |-> f] : f \in RichFramesOf(dt)} : dt \in DataTypes}

\* the frames of one run of the analyzers, each under the name of its
\* analyzer: at most MaxAnalysed entries, the keys distinct
RichInputs ==
   UNION {{q \in [1..n -> RichUploads] : \A i, j \in 1..n : i # j => q[i].key # q[j].key} :
            n \in 0..MaxAnalysed}

\* what analyze() of the analyzer of its key comes to on each of them
Analysed == [u \in RichUploads |-> Analyze(u.key, u.df)]

\* what each possible entry comes to
Outcome == [u \in Uploads |-> ProcessEntry(u.key, u.df)]

\* the dicts a caller may pass: at most MaxFiles entries, the keys distinct
Inputs ==
   UNION {{q \in [1..n -> Uploads] : \A i, j \in 1..n : i # j => q[i].key # q[j].key} :
            n \in 0..MaxFiles}

(***************************************************************************)
(* data_loader/cleaners.py: DataCleaner                                    *)
(*                                                                         *)
(* A DataFrame is its column names, the dtype of every column and its rows.*)
(* A cell is <<"null">> (None, NaN or NaT), <<"str", s>>, <<"num", n>> for  *)
(* the number n, <<"half", n>> for the number n / 2 with n odd, or         *)
(* <<"ts", s>> for the Timestamp written s. An entry of changes_log is its *)
(* 'type' and 'affected_rows'; 'description' repeats them in words and     *)
(* 'timestamp' is the time of the call.                                    *)
(***************************************************************************)

Null == <<"null">>
Str(s) == <<"str", s>>
Num(n) == <<"num", n>>
Ts(s) == <<"ts", s>>

\* pd.isnull on one cell
isnull(cell) == cell[1] = "null"

\* df[col], by position
Column(df, c) == [r \in 1..Len(df.rows) |-> df.rows[r][c]]

\* df[col] = values, the column taking the dtype of the values
WithColumn(df, c, dtype, values) ==
   [df EXCEPT !.dtypes[c] = dtype,
              !.rows = [r \in 1..Len(df.rows) |-> [df.rows[r] EXCEPT ![c] = values[r]]]]

\* series.isnull().sum()
CountNull(values) == Cardinality({r \in DOMAIN values : isnull(values[r])})

\* self._log_change(change_type, affected_count, description)
LogEntry(change_type, affected_count) ==
   <<[type |-> change_type, affected_rows |-> affected_count]>>

\* df.dropna(how='all')
dropna_all(df) ==
   [df EXCEPT !.rows = SelectSeq(df.rows, LAMBDA row : \E c \in 1..Len(row) : ~isnull(row[c]))]

\* df.drop_duplicates(): of equal rows the first is kept; missing values
\* are equal to each other
drop_duplicates(df) ==
   [df EXCEPT !.rows =
      SelectIdx(df.rows,
                {r \in 1..Len(df.rows) : \A q \in 1..(r - 1) : df.rows[q] # df.rows[r]}, 1)]

\* the regex class [\s\-/]
IsSeparator(c) == IsSpace(c) \/ c = "-" \/ c = "/"

RECURSIVE SubSeparators(_, _)
\* re.sub(r'[\s\-/]+', '_', s), from position i on
SubSeparators(s, i) ==
   IF i > Len(s) THEN ""
   ELSE IF IsSeparator(Ch(s, i))
   THEN (IF i > 1 /\ IsSeparator(Ch(s, i - 1)) THEN "" ELSE "_") \o SubSeparators(s, i + 1)
   ELSE Ch(s, i) \o SubSeparators(s, i + 1)

RECURSIVE KeepWordChars(_, _)
\* re.sub(r'[^\w_]', '', s), from position i on
KeepWordChars(s, i) ==
   IF i > Len(s) THEN ""
   ELSE (IF IsWordChar(Ch(s, i)) THEN Ch(s, i) ELSE "") \o KeepWordChars(s, i + 1)

\* new_name of _clean_column_names
CleanName(col) == KeepWordChars(SubSeparators(Strip(Lower(col)), 1), 1)

\* _clean_column_names(df): the frame and what the call logs
clean_column_names(df) ==
   Let([c \in 1..Len(df.cols) |-> CleanName(df.cols[c])], LAMBDA new_names :
   Let({df.cols[c] : c \in {c \in 1..Len(df.cols) : new_names[c] # df.cols[c]}},
       LAMBDA rename_map :
          IF rename_map # {}
          THEN [df |-> [df EXCEPT !.cols = new_names],
                log |-> LogEntry("rename_columns", Cardinality(rename_map))]
          ELSE [df |-> df, log |-> <<>>]))

IsDigit(c) == CharIn(c, DIGITS)

IsDigits(s) == Len(s) > 0 /\ \A i \in 1..Len(s) : IsDigit(Ch(s, i))

DigitVal(c) == (CHOOSE i \in 1..Len(DIGITS) : Ch(DIGITS, i) = c) - 1

RECURSIVE ParseNat(_)
\* int(s) of a string of digits
ParseNat(s) ==
   IF Len(s) = 0 THEN 0
   ELSE 10 * ParseNat(SubSeq(s, 1, Len(s) - 1)) + DigitVal(Ch(s, Len(s)))

DaysInMonth(year, month) ==
   IF month = 2
   THEN (IF year % 4 = 0 /\ (year % 100 # 0 \/ year % 400 = 0) THEN 29 ELSE 28)
   ELSE IF month \in {4, 6, 9, 11} THEN 30 ELSE 31

\* a day written YYYY-MM-DD, in a year a Timestamp can hold. The text cells
\* of the date columns here are such days or words no date format reads.
IsIsoDate(s) ==
   /\ Len(s) = 10 /\ Ch(s, 5) = "-" /\ Ch(s, 8) = "-"
   /\ IsDigits(SubSeq(s, 1, 4)) /\ IsDigits(SubSeq(s, 6, 7)) /\ IsDigits(SubSeq(s, 9, 10))
   /\ ParseNat(SubSeq(s, 1, 4)) \in 1678..2261
   /\ ParseNat(SubSeq(s, 6, 7)) \in 1..12
   /\ ParseNat(SubSeq(s, 9, 10)) \in
         1..DaysInMonth(ParseNat(SubSeq(s, 1, 4)), ParseNat(SubSeq(s, 6, 7)))

\* pd.to_datetime(series, errors='coerce') on one cell: text that is no
\* date becomes NaT, a number is a count of nanoseconds since the epoch
to_datetime(cell) ==
   CASE cell[1] = "null" -> Null
     [] cell[1] = "ts" -> cell
     [] cell[1] = "str" -> (IF IsIsoDate(cell[2]) THEN Ts(cell[2]) ELSE Null)
     [] cell[1] = "num" -> Ts("1970-01-01 +" \o ToString(cell[2]) \o "ns")

date_patterns == {"date", "time", "period"}

\* any(p in col_lower for p in date_patterns)
IsDateColumn(col) == \E p \in date_patterns : Contains(Lower(col), p)

RECURSIVE convert_dates(_, _)
\* _convert_dates(df), from column c on: the frame and what the call logs
convert_dates(df, c) ==
   IF c > Len(df.cols) THEN [df |-> df, log |-> <<>>]
   ELSE IF ~IsDateColumn(df.cols[c]) THEN convert_dates(df, c + 1)
   ELSE Let(Column(df, c), LAMBDA original :
        Let([r \in DOMAIN original |-> to_datetime(original[r])], LAMBDA converted :
        Let(convert_dates(WithColumn(df, c, "datetime64[ns]", converted), c + 1), LAMBDA rest :
           [df |-> rest.df,
            log |-> (IF CountNull(converted) > CountNull(original)
                     THEN LogEntry("date_conversion",
                                   CountNull(converted) - CountNull(original))
                     ELSE <<>>) \o rest.log])))

RECURSIVE DropChars(_, _, _)
\* s from position i on, without the characters in chars
DropChars(s, chars, i) ==
   IF i > Len(s) THEN ""
   ELSE (IF Ch(s, i) \in chars THEN "" ELSE Ch(s, i)) \o DropChars(s, chars, i + 1)

RECURSIVE SubDigitParen(_, _)
\* str.replace(r'([0-9])\(([0-9])\)', r'-\1\2', regex=True), from position i on
SubDigitParen(s, i) ==
   IF i > Len(s) THEN ""
   ELSE IF /\ i + 3 <= Len(s)
           /\ IsDigit(Ch(s, i)) /\ Ch(s, i + 1) = "("
           /\ IsDigit(Ch(s, i + 2)) /\ Ch(s, i + 3) = ")"
   THEN "-" \o Ch(s, i) \o Ch(s, i + 2) \o SubDigitParen(s, i + 4)
   ELSE Ch(s, i) \o SubDigitParen(s, i + 1)

RECURSIVE DigitsEnd(_, _)
\* where the run of digits that starts at position i ends: i - 1 if s has
\* no digit there
DigitsEnd(s, i) == IF i <= Len(s) /\ IsDigit(Ch(s, i)) THEN DigitsEnd(s, i + 1) ELSE i - 1

RECURSIVE SubParen(_, _)
\* str.replace(r'\(([0-9]+)\)', r'-\1', regex=True), from position i on
SubParen(s, i) ==
   IF i > Len(s) THEN ""
   ELSE Let(DigitsEnd(s, i + 1), LAMBDA last :
           IF /\ Ch(s, i) = "(" /\ last >= i + 1
              /\ last + 1 <= Len(s) /\ Ch(s, last + 1) = ")"
           THEN "-" \o SubSeq(s, i + 1, last) \o SubParen(s, last + 2)
           ELSE Ch(s, i) \o SubParen(s, i + 1))

\* series.astype(str) on one cell of an object column
astype_str(cell) ==
   CASE cell[1] = "null" -> "nan"
     [] cell[1] = "str" -> cell[2]
     [] cell[1] = "num" -> ToString(cell[2])

\* the four replacements of _clean_numerics on one string
CleanedText(s) ==
   Let(DropChars(s, {"$", ",", " ", "\t", "\n", "\r"}, 1), LAMBDA s1 :
   Let(SubDigitParen(s1, 1), LAMBDA s2 :
   Let(SubParen(s2, 1), LAMBDA s3 : DropChars(s3, {"%"}, 1))))

\* pd.to_numeric(series, errors='coerce') on one string: a signed run of
\* digits is its number, anything else NaN. The amounts here are whole.
to_numeric(s) ==
   Let(IF Len(s) > 0 /\ Ch(s, 1) \in {"-", "+"} THEN SubSeq(s, 2, Len(s)) ELSE s, LAMBDA digits :
      IF ~IsDigits(digits) THEN Null
      ELSE IF Ch(s, 1) = "-" THEN Num(0 - ParseNat(digits))
      ELSE Num(ParseNat(digits)))

numeric_patterns ==
   {"amount", "revenue", "cost", "price", "quantity", "qty",
    "total", "margin", "profit", "rate", "pct", "percent"}

\* any(p in col_lower for p in numeric_patterns)
IsNumericColumn(col) == \E p \in numeric_patterns : Contains(Lower(col), p)

\* non_null_numeric > non_null_original * 0.5
MoreThanHalf(non_null_numeric, non_null_original) == 2 * non_null_numeric > non_null_original

RECURSIVE clean_numerics(_, _)
\* _clean_numerics(df), from column c on: the frame and what the call logs
clean_numerics(df, c) ==
   IF c > Len(df.cols) THEN [df |-> df, log |-> <<>>]
   ELSE IF ~(IsNumericColumn(df.cols[c]) /\ df.dtypes[c] = "object")
   THEN clean_numerics(df, c + 1)
   ELSE Let(Column(df, c), LAMBDA original :
        Let([r \in DOMAIN original |-> to_numeric(CleanedText(astype_str(original[r])))],
            LAMBDA numeric :
        Let(Len(original) - CountNull(original), LAMBDA non_null_original :
           IF MoreThanHalf(Len(numeric) - CountNull(numeric), non_null_original)
           THEN Let(clean_numerics(WithColumn(df, c, "float64", numeric), c + 1), LAMBDA rest :
                   [df |-> rest.df,
                    log |-> LogEntry("clean_numeric", non_null_original) \o rest.log])
           ELSE clean_numerics(df, c + 1))))

\* pd.api.types.is_numeric_dtype
is_numeric_dtype(dtype) == dtype \in {"int64", "float64"}

\* sorted(nums)[k - 1]: the k-th of nums in increasing order
KthSmallest(nums, k) ==
   nums[CHOOSE i \in 1..Len(nums) :
           /\ Cardinality({j \in 1..Len(nums) : nums[j] < nums[i]}) < k
           /\ k <= Cardinality({j \in 1..Len(nums) : nums[j] <= nums[i]})]

\* series.median() of a column of numbers, some missing: the middle one, or
\* the mean of the middle two; NaN if all are missing
Median(values) ==
   Let(SelectSeq(values, LAMBDA cell : ~isnull(cell)), LAMBDA present :
   Let([r \in 1..Len(present) |-> present[r][2]], LAMBDA nums :
      IF nums = <<>> THEN Null
      ELSE IF Len(nums) % 2 = 1 THEN Num(KthSmallest(nums, (Len(nums) + 1) \div 2))
      ELSE Let(KthSmallest(nums, Len(nums) \div 2)
                  + KthSmallest(nums, Len(nums) \div 2 + 1), LAMBDA sum :
              IF sum % 2 = 0 THEN Num(sum \div 2) ELSE <<"half", sum>>)))

\* series.fillna(value)
fillna(values, value) == [r \in DOMAIN values |-> IF isnull(values[r]) THEN value ELSE values[r]]

\* missing_count / len(df) * 100 < 10
LowMissingRate(missing_count, rows) == 10 * missing_count < rows

RECURSIVE handle_missing_values(_, _)
\* _handle_missing_values(df), from column c on: the frame and what the
\* call logs
handle_missing_values(df, c) ==
   IF c > Len(df.cols) THEN [df |-> df, log |-> <<>>]
   ELSE Let(Column(df, c), LAMBDA col_data :
        Let(CountNull(col_data), LAMBDA missing_count :
           IF missing_count = 0 THEN handle_missing_values(df, c + 1)
           ELSE IF is_numeric_dtype(df.dtypes[c]) /\ LowMissingRate(missing_count, Len(df.rows))
           THEN Let(Median(col_data), LAMBDA median_val :
                   IF isnull(median_val) THEN handle_missing_values(df, c + 1)
                   ELSE Let(handle_missing_values(
                               WithColumn(df, c, df.dtypes[c], fillna(col_data, median_val)),
                               c + 1), LAMBDA rest :
                           [df |-> rest.df,
                            log |-> LogEntry("fillna_median", missing_count) \o rest.log]))
           ELSE IF df.dtypes[c] = "object"
           THEN Let(handle_missing_values(
                       WithColumn(df, c, "object", fillna(col_data, Str("Unknown"))), c + 1),
                    LAMBDA rest :
                       [df |-> rest.df,
                        log |-> LogEntry("fillna_unknown", missing_count) \o rest.log])
           ELSE handle_missing_values(df, c + 1)))

\* the DataQualityIssue of the duplicate rows
DuplicateIssue(duplicates_removed) ==
   [column |-> "_all_", issue_type |-> "duplicate", affected_rows |-> duplicates_removed,
    severity |-> "medium"]

\* clean(df): the frame and the issues it returns, and what it appends to
\* self.changes_log
clean(df) ==
   Let(dropna_all(df), LAMBDA not_empty :
   Let(Len(df.rows) - Len(not_empty.rows), LAMBDA rows_removed :
   Let(drop_duplicates(not_empty), LAMBDA distinct :
   Let(Len(not_empty.rows) - Len(distinct.rows), LAMBDA duplicates_removed :
   Let(clean_column_names(distinct), LAMBDA named :
   Let(convert_dates(named.df, 1), LAMBDA dated :
   Let(clean_numerics(dated.df, 1), LAMBDA numeric :
   Let(handle_missing_values(numeric.df, 1), LAMBDA filled :
      [df |-> filled.df,
       issues |-> IF duplicates_removed > 0 THEN <<DuplicateIssue(duplicates_removed)>>
                  ELSE <<>>,
       log |-> (IF rows_removed > 0 THEN LogEntry("remove_empty_rows", rows_removed)
                ELSE <<>>)
               \o (IF duplicates_removed > 0
                   THEN LogEntry("remove_duplicates", duplicates_removed) ELSE <<>>)
               \o named.log \o dated.log \o numeric.log \o filled.log]))))))))

(***************************************************************************)
(* The frames given to the cleaner                                         *)
(***************************************************************************)

\* the most rows and columns of a frame, and the most calls of clean()
MaxRows == 2
MaxCols == 2
MaxCleans == 2

\* the columns a frame is made of: a name, the dtype the loader read the
\* column with, and the cells it may hold
CleanColumns ==
   <<[name |-> "Order Date", dtype |-> "object",
      cells |-> {Null, Str("2024-01-15"), Str("TBD")}],
     [name |-> "amount", dtype |-> "object",
      cells |-> {Null, Str("$1,200"), Str("1200"), Str("(5)"), Str("45%"), Str("n/a")}],
     [name |-> "customer", dtype |-> "object",
      cells |-> {Null, Str("ACME"), Str("Unknown")}],
     [name |-> "qty", dtype |-> "float64",
      cells |-> {Null, Num(1), Num(2)}]>>

\* the frames of the given columns, in the order given
FramesWith(columns) ==
   Let({row \in [1..Len(columns) -> UNION {CleanColumns[c].cells : c \in 1..Len(CleanColumns)}] :
          \A k \in 1..Len(columns) : row[k] \in CleanColumns[columns[k]].cells}, LAMBDA rows :
      {[cols |-> [k \in 1..Len(columns) |-> CleanColumns[columns[k]].name],
        dtypes |-> [k \in 1..Len(columns) |-> CleanColumns[columns[k]].dtype],
        rows |-> q] : q \in UNION {[1..n -> rows] : n \in 0..MaxRows}})

\* one to MaxCols of the columns, left to right
ColumnChoices ==
   {q \in UNION {[1..n -> 1..Len(CleanColumns)] : n \in 1..MaxCols} :
      \A i, j \in 1..Len(q) : i < j => q[i] < q[j]}

\* a frame with enough rows for a missing rate under 10%
LongFrame ==
   [cols |-> <<"customer", "qty">>, dtypes |-> <<"object", "float64">>,
    rows |-> [r \in 1..11 |-> <<Str("ACME"), IF r = 11 THEN Null ELSE Num(r)>>]]

\* the frames a caller may give the cleaner, by the columns they have
CleanInputs(columns) == FramesWith(columns) \cup {LongFrame}

(***************************************************************************)
(* data_loader/schema_detector.py: detect_data_type, and normalize_columns *)
(* on a frame of rows                                                      *)
(***************************************************************************)

\* TYPE_KEYWORDS, in the order of the dict and of each list
TYPE_KEYWORDS ==
   <<<<"financial", <<"revenue", "profit", "margin", "expense", "income", "cogs", "budget",
                      "forecast", "gross", "net", "operating", "ebitda", "ebit">>>>,
     <<"manufacturing", <<"production", "planned", "actual", "good", "rejected", "wastage",
                          "yield", "efficiency", "output", "throughput", "downtime", "oee">>>>,
     <<"inventory", <<"sku", "stock", "inventory", "quantity", "on_hand", "warehouse",
                      "receipt", "movement", "aging", "coverage", "reorder", "safety">>>>,
     <<"sales", <<"order", "customer", "sales", "discount", "tax", "channel", "region",
                  "segment", "sales_rep", "rep">>>>,
     <<"purchase", <<"po", "purchase_order", "supplier", "vendor", "lead_time", "delivery",
                     "receipt", "supplier">>>>>>

\* str(df[col].dropna().head(10).tolist()).lower() holds the keyword: one
\* of the first ten cells that are not missing is a string that holds it (a
\* number is written in digits)
InValues(df, c, keyword) ==
   Let(SelectSeq(Column(df, c), LAMBDA cell : ~isnull(cell)), LAMBDA present :
      \E r \in 1..Len(present) :
         r <= 10 /\ present[r][1] = "str" /\ Contains(Lower(present[r][2]), keyword))

\* twice scores[data_type]: 1 for a keyword in a column name, 0.5 for a
\* keyword in the values of a column
TypeScore(df, t) ==
   Let(TYPE_KEYWORDS[t][2], LAMBDA keywords :
      2 * Cardinality({q \in (1..Len(df.cols)) \X (1..Len(keywords)) :
                         Contains(ReplaceSpaceDash(Lower(df.cols[q[1]])), keywords[q[2]])})
      + Cardinality({q \in (1..Len(df.cols)) \X (1..Len(keywords)) :
                       InValues(df, q[1], keywords[q[2]])}))

\* the column labels that are integers: read_excel makes the int 2024 of a
\* header cell that holds the number 2024, written here by its digits
IntLabels == {"2024"}

\* c.lower() for c in df.columns: AttributeError on a label that is an int
detect_data_type_raises(df) == \E k \in 1..Len(df.cols) : df.cols[k] \in IntLabels

\* detect_data_type(df): the first type of the enum with the highest score,
\* UNKNOWN if no keyword is found
detect_data_type(df) ==
   Let([t \in 1..Len(TYPE_KEYWORDS) |-> TypeScore(df, t)], LAMBDA scores :
      IF \A t \in DOMAIN scores : scores[t] = 0 THEN "unknown"
      ELSE TYPE_KEYWORDS[CHOOSE t \in DOMAIN scores :
                            /\ \A u \in DOMAIN scores : scores[u] <= scores[t]
                            /\ \A u \in 1..(t - 1) : scores[u] < scores[t]][1])

\* scores[data_type] of detect_with_confidence: 1 for a keyword in a
\* column name, and nothing else
NameScore(df, t) ==
   Let(TYPE_KEYWORDS[t][2], LAMBDA keywords :
      Cardinality({q \in (1..Len(df.cols)) \X (1..Len(keywords)) :
                     Contains(ReplaceSpaceDash(Lower(df.cols[q[1]])), keywords[q[2]])}))

\* round(min(max_score / max(3, col_count * 0.5), 1.0), 2) in hundredths:
\* 200 * max_score / max(6, col_count) to the nearest hundredth, an exact
\* half to the even one
NameConfidence(max_score, col_count) ==
   Let(IF col_count > 6 THEN col_count ELSE 6, LAMBDA den :
      Let((200 * max_score) \div den, LAMBDA q :
         Let((200 * max_score) % den, LAMBDA r :
            Let(IF 2 * r < den THEN q
                ELSE IF 2 * r > den THEN q + 1
                ELSE IF q % 2 = 0 THEN q ELSE q + 1, LAMBDA rounded :
               IF rounded > 100 THEN 100 ELSE rounded))))

\* detect_with_confidence(df): <<the type, the confidence in hundredths>>
detect_with_confidence(df) ==
   IF Len(df.cols) = 0 THEN <<"unknown", 0>>
   ELSE Let([t \in 1..Len(TYPE_KEYWORDS) |-> NameScore(df, t)], LAMBDA scores :
      IF \A t \in DOMAIN scores : scores[t] = 0 THEN <<"unknown", 0>>
      ELSE Let(CHOOSE t \in DOMAIN scores :
                  /\ \A u \in DOMAIN scores : scores[u] <= scores[t]
                  /\ \A u \in 1..(t - 1) : scores[u] < scores[t], LAMBDA t :
              <<TYPE_KEYWORDS[t][1], NameConfidence(scores[t], Len(df.cols))>>))

\* df.drop(columns=[old_col])
DropColumn(df, old_col) ==
   Let({k \in 1..Len(df.cols) : df.cols[k] # old_col}, LAMBDA kept :
      [cols |-> SelectIdx(df.cols, kept, 1),
       dtypes |-> SelectIdx(df.dtypes, kept, 1),
       rows |-> [r \in 1..Len(df.rows) |-> SelectIdx(df.rows[r], kept, 1)]])

RECURSIVE RenameOrDrop(_, _, _)
\* the second loop of normalize_columns on a frame of rows
RenameOrDrop(df, rename_map, i) ==
   IF i > Len(rename_map) THEN df
   ELSE LET old_col == rename_map[i][1]
            new_col == rename_map[i][2]
            next == IF InSeq(new_col, df.cols)
                    THEN DropColumn(df, old_col)
                    ELSE [df EXCEPT !.cols = [k \in 1..Len(df.cols) |->
                                                IF df.cols[k] = old_col THEN new_col
                                                ELSE df.cols[k]]]
        IN RenameOrDrop(next, rename_map, i + 1)

\* normalize_columns(df, data_type) on a frame of rows
normalize_columns(df, data_type) ==
   RenameOrDrop(df, BuildRenameMap(df.cols, data_type, 1, {}), 1)

(***************************************************************************)
(* data_loader/validators.py                                               *)
(*                                                                         *)
(* A DataQualityIssue is [column, issue_type, affected_rows, severity,     *)
(* description]; the numbers a description is formatted with are not       *)
(* modelled.                                                               *)
(***************************************************************************)

REQUIRED_COLUMNS(data_type) ==
   CASE data_type = "financial" -> <<"revenue", "period">>
     [] data_type = "manufacturing" -> <<"product_id", "planned_quantity", "actual_quantity">>
     [] data_type = "inventory" -> <<"sku", "quantity", "unit_cost">>
     [] data_type = "sales" -> <<"order_id", "product_id", "quantity", "total_amount">>
     [] data_type = "purchase" -> <<"po_number", "supplier", "quantity", "unit_price">>
     [] OTHER -> <<>>

POSITIVE_ONLY_COLUMNS ==
   {"revenue", "quantity", "unit_price", "total_amount", "cost", "quantity_on_hand",
    "planned_quantity", "actual_quantity", "good_quantity", "unit_cost", "stock_value",
    "margin"}

\* self._add_issue(...)
add_issue(column, issue_type, affected_rows, severity, description) ==
   <<[column |-> column, issue_type |-> issue_type, affected_rows |-> affected_rows,
      severity |-> severity, description |-> description]>>

\* df.duplicated().sum(): the rows equal to an earlier row
duplicate_rows(df) == Len(df.rows) - Len(drop_duplicates(df).rows)

\* a cell that holds a list, which cannot be hashed
ListCell == <<"list">>

\* df.duplicated() hashes every cell: TypeError on a cell that holds a list
duplicated_raises(df) ==
   \E r \in 1..Len(df.rows) : \E c \in 1..Len(df.cols) : df.rows[r][c] = ListCell

\* the duplicate check of validate: skipped by its except clause when
\* df.duplicated() raises
check_duplicates(df) ==
   IF duplicated_raises(df) THEN <<>>
   ELSE
   Let(duplicate_rows(df), LAMBDA n :
      IF n > 0
      THEN add_issue("_all_", "duplicate", n,
                     IF 100 * n < 5 * Len(df.rows) THEN "medium" ELSE "high",
                     "duplicate rows found")
      ELSE <<>>)

RECURSIVE analyze_missing_data(_, _)
\* _analyze_missing_data(df), from column c on: the issues it adds
analyze_missing_data(df, c) ==
   IF c > Len(df.cols) THEN <<>>
   ELSE Let(CountNull(Column(df, c)), LAMBDA missing_count :
        Let(Len(df.rows), LAMBDA total :
           (IF missing_count = 0 THEN <<>>
            ELSE IF 100 * missing_count > 20 * total
            THEN add_issue(df.cols[c], "missing", missing_count,
                           IF 100 * missing_count > 50 * total THEN "critical" ELSE "high",
                           "Column '" \o df.cols[c] \o "' has % missing values ( rows)")
            ELSE IF 100 * missing_count > 10 * total
            THEN add_issue(df.cols[c], "missing", missing_count, "medium",
                           "Column '" \o df.cols[c] \o "' has % missing values")
            ELSE add_issue(df.cols[c], "missing", missing_count, "low",
                           "Column '" \o df.cols[c] \o "' has % missing values"))
           \o analyze_missing_data(df, c + 1)))

\* missing_pct of _analyze_missing_data: the columns with missing values,
\* each with the count and the number of rows its percentage is made of
missing_percentage(df) ==
   Let({c \in 1..Len(df.cols) : CountNull(Column(df, c)) > 0}, LAMBDA some :
      [k \in 1..Cardinality(some) |->
         Let(CHOOSE c \in some : Cardinality({d \in some : d <= c}) = k, LAMBDA c :
            [key |-> df.cols[c],
             value |-> <<CountNull(Column(df, c)), Len(df.rows)>>])])

RECURSIVE validate_columns(_, _, _)
\* _validate_columns(df, data_type), from required column i on
validate_columns(df, data_type, i) ==
   Let(REQUIRED_COLUMNS(data_type), LAMBDA required :
      IF i > Len(required) THEN <<>>
      ELSE (IF \E k \in 1..Len(df.cols) : Lower(df.cols[k]) = Lower(required[i])
            THEN <<>>
            ELSE add_issue(required[i], "missing_column", Len(df.rows), "critical",
                           "Required column '" \o required[i] \o "' is missing"))
           \o validate_columns(df, data_type, i + 1))

\* (df[col] < 0).sum(); comparing a column of strings or of None with 0
\* raises TypeError, which the caller swallows
neg_count(df, c) ==
   IF \A r \in 1..Len(df.rows) : df.rows[r][c][1] \in {"num", "null"}
      /\ df.dtypes[c] # "object"
   THEN Cardinality({r \in 1..Len(df.rows) :
                       df.rows[r][c][1] = "num" /\ df.rows[r][c][2] < 0})
   ELSE 0

\* _is_numeric_column: df[col].astype(float) raises on a string that is no
\* number, and the strings of the frames here are none
is_numeric_column(df, c) == \A r \in 1..Len(df.rows) : df.rows[r][c][1] \in {"num", "null"}

\* four times series.quantile(k / 4), by linear interpolation between the
\* two ranks around (n - 1) * k / 4
Quantile4(nums, k) ==
   LET pos4 == (Len(nums) - 1) * k
       lo == KthSmallest(nums, pos4 \div 4 + 1)
   IN IF pos4 % 4 = 0 THEN 4 * lo
      ELSE 4 * lo + (pos4 % 4) * (KthSmallest(nums, pos4 \div 4 + 2) - lo)

\* _check_outliers(df, col): nothing under ten values, an issue when more
\* than 5% of them are outside Q1 - 1.5 IQR .. Q3 + 1.5 IQR
check_outliers(df, c) ==
   Let(SelectSeq(Column(df, c), LAMBDA cell : ~isnull(cell)), LAMBDA present :
   Let([r \in 1..Len(present) |-> present[r][2]], LAMBDA series :
      IF Len(series) < 10 THEN <<>>
      ELSE LET Q1 == Quantile4(series, 1)
               Q3 == Quantile4(series, 3)
               IQR == Q3 - Q1
               outliers == Cardinality({r \in 1..Len(series) :
                                          \/ 8 * series[r] < 2 * Q1 - 3 * IQR
                                          \/ 8 * series[r] > 2 * Q3 + 3 * IQR})
           IN IF 100 * outliers > 5 * Len(series)
              THEN add_issue(df.cols[c], "outlier", outliers, "medium",
                             "Column '" \o df.cols[c] \o "' has outliers (%)")
              ELSE <<>>))

RECURSIVE validate_values(_, _)
\* _validate_values(df), from column c on
validate_values(df, c) ==
   IF c > Len(df.cols) THEN <<>>
   ELSE (IF (\E pos \in POSITIVE_ONLY_COLUMNS : Contains(Lower(df.cols[c]), pos))
            /\ neg_count(df, c) > 0
         THEN add_issue(df.cols[c], "invalid_value", neg_count(df, c), "high",
                        "Column '" \o df.cols[c] \o "' has negative values (expected positive)")
         ELSE <<>>)
        \o (IF is_numeric_column(df, c) THEN check_outliers(df, c) ELSE <<>>)
        \o validate_values(df, c + 1)

\* [i.description for i in issues if i.severity == Severity.CRITICAL]
CriticalDescriptions(issues) ==
   Let(SelectSeq(issues, LAMBDA i : i.severity = "critical"), LAMBDA critical :
      [k \in 1..Len(critical) |-> critical[k].description])

\* the issues validate collects, in the order of its checks
ValidationIssues(df, data_type) ==
   check_duplicates(df) \o analyze_missing_data(df, 1)
      \o validate_columns(df, data_type, 1) \o validate_values(df, 1)

\* DataQualityReport(...) at the end of validate
BuildReport(df, issues, is_usable) ==
   [total_rows |-> Len(df.rows),
    total_columns |-> Len(df.cols),
    columns |-> df.cols,
    issues |-> issues,
    missing_percentage |-> missing_percentage(df),
    duplicate_rows |-> duplicate_rows(df),
    is_usable |-> is_usable,
    blocking_issues |-> CriticalDescriptions(issues)]

\* validate without the test that makes a report unusable
validate_always_usable(df, data_type) ==
   BuildReport(df, ValidationIssues(df, data_type), TRUE)

\* duplicate_rows is bound inside the try block of the duplicate check
\* only, and read by int(duplicate_rows) where the report is built:
\* UnboundLocalError when df.duplicated() raised
validate_raises(df) == duplicated_raises(df)

\* validate(df, data_type): the DataQualityReport, when it does not raise
validate(df, data_type) ==
   Let(ValidationIssues(df, data_type), LAMBDA issues :
      BuildReport(df, issues,
                  ~(\E k \in 1..Len(issues) : issues[k].severity = "critical")))

(***************************************************************************)
(* analyzers/inventory_analyzer.py on dated rows                           *)
(*                                                                         *)
(* An inventory row is [sku, stock_value, last_movement_date,              *)
(* receipt_date]: stock_value is quantity * unit_cost and a date is a day  *)
(* number. datetime.now() is the day number of the clock; (now - date).days*)
(* is their difference.                                                    *)
(***************************************************************************)

\* settings.dead_stock_threshold_days
dead_stock_threshold_days == 180

RECURSIVE SumStockValue(_, _)
\* df['stock_value'].sum() over the rows at the indices in keep
SumStockValue(rows, keep) ==
   IF keep = {} THEN 0
   ELSE Let(CHOOSE i \in keep : TRUE, LAMBDA i :
            rows[i].stock_value + SumStockValue(rows, keep \ {i}))

\* df[df['days_since_movement'] > threshold], as row indices
dead_stock(rows, now) ==
   {i \in 1..Len(rows) : now - rows[i].last_movement_date > dead_stock_threshold_days}

\* bucket_df of _analyze_stock_aging for the bucket (min_days, max_days)
AgeBucket(rows, now, min_days, max_days) ==
   {i \in 1..Len(rows) :
       now - rows[i].receipt_date >= min_days /\ now - rows[i].receipt_date <= max_days}

\* "total_value > 0 and old_stock_pct > 30" of _analyze_stock_aging
OldStock(rows, now) ==
   LET old == SumStockValue(rows, AgeBucket(rows, now, 91, 9999))
       total_value == SumStockValue(rows, AgeBucket(rows, now, 0, 30))
                      + SumStockValue(rows, AgeBucket(rows, now, 31, 60))
                      + SumStockValue(rows, AgeBucket(rows, now, 61, 90)) + old
   IN total_value > 0 /\ 100 * old > 30 * total_value

\* round(num / den, 1) in tenths, num >= 0: halves go to the even tenth
RoundTenths(num, den) ==
   LET q == (10 * num) \div den
       r == (10 * num) % den
   IN IF 2 * r < den THEN q
      ELSE IF 2 * r > den THEN q + 1
      ELSE IF q % 2 = 0 THEN q ELSE q + 1

RECURSIVE SumAge(_, _, _)
SumAge(rows, now, i) ==
   IF i > Len(rows) THEN 0 ELSE (now - rows[i].receipt_date) + SumAge(rows, now, i + 1)

\* average_stock_age_days of calculate_kpis, in tenths of a day
average_stock_age_days(rows, now) == RoundTenths(SumAge(rows, now, 1), Len(rows))

\* the columns of the record set
StockColumns == <<"sku", "quantity", "unit_cost", "last_movement_date", "receipt_date">>

\* the conditions that hold of the rows when the clock reads now
StockFacts(rows, now) ==
   {f \in {"len(dead_stock) > 0"} : dead_stock(rows, now) # {}}
   \cup {f \in {"total_dead_value > 100000"} :
           SumStockValue(rows, dead_stock(rows, now)) > 100000}
   \cup {f \in {"total_value > 0 and old_stock_pct > 30"} : OldStock(rows, now)}

\* InventoryAnalyzer(df).analyze() run when the clock reads now
InventoryAnalyzeAt(rows, now) ==
   Let(InventoryAnalyze(Frame(StockColumns, StockFacts(rows, now))), LAMBDA analysis :
       [analysis EXCEPT
           !.kpis = [analysis.kpis EXCEPT
                        !["average_stock_age_days"] = average_stock_age_days(rows, now)]])

\* the most rows of a record set, the most runs, the most days that pass
MaxStockRows == 2
MaxRuns == 2
MaxDays == 2

\* the day of the first run
FirstDay == dead_stock_threshold_days + 20

\* rows last moved 181, 180 and 50 days before the first run, received 100
\* and 90 days before it
StockRowPool ==
   {[sku |-> "SKU-1", stock_value |-> v, last_movement_date |-> m, receipt_date |-> r] :
       v \in {5000, 120000}, m \in {19, 20, 150}, r \in {100, 110}}

StockRecordSets == UNION {[1..n -> StockRowPool] : n \in 1..MaxStockRows}

(***************************************************************************)
(* State                                                                   *)
(***************************************************************************)

VARIABLES
   \* one call of analyze_multi_file
   data_frames,            \* the argument: a dict, as a sequence of entries
   idx,                    \* how many entries the loop has been through
   pc,                     \* where the call is
   all_results, all_kpis, all_charts, enabled_domains,
   insights, cross_domain_insights, recommendations,
   result,                 \* <<>> until the call returns, then <<the dict>>
   \* one call of InsightEngine.generate_insights
   analysis_results,       \* the argument
   engine_insights,        \* self._insights
   engine_pc,
   \* one DataCleaner and the frame it is given again and again
   cleaner_df,             \* the frame the next clean() is called on
   changes_log,            \* self.changes_log
   clean_calls,            \* what every clean() so far was given and returned
   \* one SchemaDetector: a frame matched, normalized and matched again
   schema_df,              \* the frame the next detector call is given
   schema_type,            \* the data_type argument
   schema_pc,
   schema_matches,         \* what every create_schema_match so far returned
   \* one inventory record set, analyzed again as the days pass
   stock_rows,             \* the record set
   clock,                  \* datetime.now(), in whole days
   runs,                   \* what every analyze() so far returned
   \* the engines, called one after the other on the same insights and
   \* analysis results
   report_insights,        \* the insights argument
   report_results,         \* the analysis_results argument
   report_pc,
   report,                 \* what the calls made so far returned
   \* one DataLoader and the analyzer run on what it loaded
   loader_file,            \* the frame read_csv or read_excel makes of the file
   loader_raw_data,        \* self._raw_data
   loader_pc,
   loader_trace,           \* the stages invoked so far, in order
   loader_data_type,       \* self._data_type
   loader_schema_match,    \* self._schema_match
   loader_df,              \* the local frame of load_file
   loader_quality_report,  \* self._quality_report
   loader_cleaned_data,    \* self._cleaned_data
   \* one call of BaseAnalyzer.pareto_analysis
   pareto_data,            \* self.data: rows of a category and a value
   pareto_pc,
   pareto_result           \* the dict the call returned

orchVars ==
   <<data_frames, idx, pc, all_results, all_kpis, all_charts, enabled_domains, insights,
     cross_domain_insights, recommendations, result>>
engineVars == <<analysis_results, engine_insights, engine_pc>>
cleanerVars == <<cleaner_df, changes_log, clean_calls>>
schemaVars == <<schema_df, schema_type, schema_pc, schema_matches>>
rerunVars == <<stock_rows, clock, runs>>
reportVars == <<report_insights, report_results, report_pc, report>>
loaderVars ==
   <<loader_file, loader_raw_data, loader_pc, loader_trace, loader_data_type,
     loader_schema_match, loader_df, loader_quality_report, loader_cleaned_data>>
paretoVars == <<pareto_data, pareto_pc, pareto_result>>
stageVars == <<schemaVars, rerunVars, reportVars, loaderVars, paretoVars>>
vars == <<orchVars, engineVars, cleanerVars, stageVars>>

NoFrame == [cols |-> <<>>, dtypes |-> <<>>, rows |-> <<>>]

OrchIdle ==
   /\ data_frames = <<>> /\ idx = 0 /\ pc = "idle"
   /\ all_results = <<>> /\ all_kpis = <<>> /\ all_charts = <<>> /\ enabled_domains = <<>>
   /\ insights = <<>> /\ cross_domain_insights = <<>> /\ recommendations = <<>>
   /\ result = <<>>

EngineIdle == analysis_results = <<>> /\ engine_insights = <<>> /\ engine_pc = "idle"

CleanerIdle == cleaner_df = NoFrame /\ changes_log = <<>> /\ clean_calls = <<>>

SchemaIdle ==
   schema_df = NoFrame /\ schema_type = "" /\ schema_pc = "idle" /\ schema_matches = <<>>

RerunIdle == stock_rows = <<>> /\ clock = 0 /\ runs = <<>>

NoReport ==
   [executive_summary |-> <<>>, action_plan |-> <<>>, exported_action_plan |-> <<>>,
    critical_risks |-> <<>>, exported_risks |-> <<>>]

ReportIdle ==
   report_insights = <<>> /\ report_results = <<>> /\ report_pc = "idle" /\ report = NoReport

\* a DataQualityReport with the defaults of its fields
NoQualityReport ==
   [total_rows |-> 0, total_columns |-> 0, columns |-> <<>>, issues |-> <<>>,
    missing_percentage |-> <<>>, duplicate_rows |-> 0, is_usable |-> TRUE,
    blocking_issues |-> <<>>]

NoSchemaMatch == [raised |-> FALSE, confidence |-> 0, column_mappings |-> <<>>]

LoaderIdle ==
   /\ loader_file = NoFrame /\ loader_raw_data = NoFrame
   /\ loader_pc = "idle" /\ loader_trace = <<>>
   /\ loader_data_type = "" /\ loader_schema_match = NoSchemaMatch /\ loader_df = NoFrame
   /\ loader_quality_report = NoQualityReport /\ loader_cleaned_data = NoFrame

ParetoIdle == pareto_data = <<>> /\ pareto_pc = "idle" /\ pareto_result = <<>>

StagesIdle == SchemaIdle /\ RerunIdle /\ ReportIdle /\ LoaderIdle /\ ParetoIdle

(***************************************************************************)
(* analyze_multi_file, step by step                                        *)
(***************************************************************************)

Init ==
   /\ data_frames \in Inputs
   /\ idx = 0 /\ pc = "loop"
   /\ all_results = <<>> /\ all_kpis = <<>> /\ all_charts = <<>> /\ enabled_domains = <<>>
   /\ insights = <<>> /\ cross_domain_insights = <<>> /\ recommendations = <<>>
   /\ result = <<>>
   /\ EngineIdle /\ CleanerIdle /\ StagesIdle

\* result.model_dump()
model_dump(analysis_result) ==
   [domain |-> analysis_result.domain, kpis |-> analysis_result.kpis,
    insights |-> analysis_result.insights, charts_data |-> analysis_result.charts_data]

\* one pass of "for data_type_str, df in data_frames.items()": the try block
\* and its "except Exception: continue"
LoopIteration ==
   /\ pc = "loop" /\ idx < Len(data_frames)
   /\ LET data_type_str == data_frames[idx + 1].key
          entry == Outcome[data_frames[idx + 1]]
      IN IF entry.enabled
         THEN /\ all_results' =
                    Append(all_results,
                           [key |-> data_type_str, value |-> model_dump(entry.result)])
              /\ all_kpis' = Append(all_kpis, [key |-> data_type_str, value |-> entry.result.kpis])
              /\ all_charts' =
                    Append(all_charts, [key |-> data_type_str, value |-> entry.result.charts_data])
              /\ enabled_domains' = Append(enabled_domains, data_type_str)
         ELSE UNCHANGED <<all_results, all_kpis, all_charts, enabled_domains>>
   /\ idx' = idx + 1
   /\ UNCHANGED <<data_frames, pc, insights, cross_domain_insights, recommendations, result>>
   /\ UNCHANGED <<engineVars, cleanerVars, stageVars>>

\* the gate that never takes the early return
NoValidDataNever(enabled) == FALSE

\* "if not enabled_domains"
NoValidData(enabled) == Len(enabled) = 0

\* the early return after the loop
ReturnEmpty ==
   /\ pc = "loop" /\ idx = Len(data_frames)
   /\ NoValidData(enabled_domains)
   /\ result' = <<EmptyResult>>
   /\ pc' = "returned"
   /\ UNCHANGED <<data_frames, idx, all_results, all_kpis, all_charts, enabled_domains,
                  insights, cross_domain_insights, recommendations>>
   /\ UNCHANGED <<engineVars, cleanerVars, stageVars>>

\* generate_insights, and the cross-domain insights when more than one
\* domain is enabled
UnifyInsights ==
   /\ pc = "loop" /\ idx = Len(data_frames)
   /\ ~NoValidData(enabled_domains)
   /\ insights' = GenerateInsights(all_results)
   /\ cross_domain_insights' =
         IF Len(enabled_domains) > 1 THEN generate_cross_domain_insights(insights') ELSE <<>>
   /\ pc' = "recommend"
   /\ UNCHANGED <<data_frames, idx, all_results, all_kpis, all_charts, enabled_domains,
                  recommendations, result>>
   /\ UNCHANGED <<engineVars, cleanerVars, stageVars>>

\* rec_engine.generate_recommendations(insights + cross_domain_insights);
\* its exception leaves analyze_multi_file
Recommend ==
   /\ pc = "recommend"
   /\ LET made == generate_recommendations(insights \o cross_domain_insights)
      IN /\ recommendations' = made.recommendations
         /\ pc' = IF made.raised THEN "raised" ELSE "assemble"
   /\ UNCHANGED <<data_frames, idx, all_results, all_kpis, all_charts, enabled_domains,
                  insights, cross_domain_insights, result>>
   /\ UNCHANGED <<engineVars, cleanerVars, stageVars>>

\* the risks, the summary, the totals, insights_by_category and the return
Assemble ==
   /\ pc = "assemble"
   /\ LET risks == identify_risks(all_results, insights)
          exec_summary == GenerateExecutiveSummary(insights, all_kpis)
          total_insights == Len(insights) + Len(cross_domain_insights)
          critical_count == Len(SelectSeq(risks, LAMBDA r : r.severity = "critical"))
          insights_by_category == BuildInsightsByCategory(enabled_domains, insights, 1)
      IN result' =
            <<[data_types |-> enabled_domains, enabled_domains |-> enabled_domains,
               executive_summary |-> exec_summary, kpis |-> all_kpis,
               insights_by_category |-> insights_by_category,
               cross_domain_insights |-> cross_domain_insights,
               critical_risks |-> risks, action_plan |-> recommendations,
               charts_data |-> all_charts, total_insights |-> total_insights,
               critical_count |-> critical_count,
               files_analyzed |-> Len(enabled_domains)]>>
   /\ pc' = "returned"
   /\ UNCHANGED <<data_frames, idx, all_results, all_kpis, all_charts, enabled_domains,
                  insights, cross_domain_insights, recommendations>>
   /\ UNCHANGED <<engineVars, cleanerVars, stageVars>>

Next == LoopIteration \/ ReturnEmpty \/ UnifyInsights \/ Recommend \/ Assemble

Spec == Init /\ [][Next]_vars

(***************************************************************************)
(* The analyzers on their own: analyze() of the analyzer of each frame,    *)
(* then the insight engine and the cross-domain checks on what it returned *)
(***************************************************************************)

InitAnalyze ==
   /\ data_frames \in RichInputs
   /\ idx = 0 /\ pc = "analyze"
   /\ all_results = <<>> /\ all_kpis = <<>> /\ all_charts = <<>> /\ enabled_domains = <<>>
   /\ insights = <<>> /\ cross_domain_insights = <<>> /\ recommendations = <<>>
   /\ result = <<>>
   /\ EngineIdle /\ CleanerIdle /\ StagesIdle

\* analyzer.analyze() on the next frame; nothing is kept of a call that raises
RunAnalyzer ==
   /\ pc = "analyze" /\ idx < Len(data_frames)
   /\ LET analysis == Analysed[data_frames[idx + 1]]
      IN all_results' =
            IF analysis.raised THEN all_results
            ELSE Append(all_results,
                        [key |-> data_frames[idx + 1].key, value |-> model_dump(analysis)])
   /\ idx' = idx + 1
   /\ UNCHANGED <<data_frames, pc, all_kpis, all_charts, enabled_domains, insights,
                  cross_domain_insights, recommendations, result>>
   /\ UNCHANGED <<engineVars, cleanerVars, stageVars>>

\* generate_insights and _generate_cross_domain_insights on the analyses
CombineInsights ==
   /\ pc = "analyze" /\ idx = Len(data_frames)
   /\ insights' = GenerateInsights(all_results)
   /\ cross_domain_insights' = generate_cross_domain_insights(insights')
   /\ pc' = "combined"
   /\ UNCHANGED <<data_frames, idx, all_results, all_kpis, all_charts, enabled_domains,
                  recommendations, result>>
   /\ UNCHANGED <<engineVars, cleanerVars, stageVars>>

NextAnalyze == RunAnalyzer \/ CombineInsights

SpecAnalyze == InitAnalyze /\ [][NextAnalyze]_vars

(***************************************************************************)
(* One analyzer on a frame with the required fields of its domain and some *)
(* of the optional columns                                                 *)
(***************************************************************************)

\* the most optional columns of a frame, and the most frames analysed
MaxOptional == 2
MaxOptionalFrames == 1

\* the columns the analyzer of a domain reads, and the conditions on the
\* rows it tests
ColumnsOf(data_type) ==
   CASE data_type = "financial" -> FinancialColumns
     [] data_type = "manufacturing" -> ManufacturingColumns
     [] data_type = "inventory" -> InventoryColumns \o <<"quantity_sold">>
     [] data_type = "sales" -> SalesColumns
     [] data_type = "purchase" -> PurchaseColumns

FactsOf(data_type) ==
   CASE data_type = "financial" -> FinancialFacts
     [] data_type = "manufacturing" -> ManufacturingFacts
     [] data_type = "inventory" -> InventoryFacts
     [] data_type = "sales" -> SalesFacts
     [] data_type = "purchase" -> PurchaseFacts

\* the frames of a domain with its required fields and at most MaxOptional
\* of the other columns, in the order of the list: without rows no
\* condition holds, and with rows any may
OptionalFrames(data_type) ==
   Let(SeqToSet(GetRequiredFields(data_type)), LAMBDA required :
      {RichFrame(SelectSeq(ColumnsOf(data_type), LAMBDA c : c \in required \/ c \in optional),
                 facts, "ACME", <<"A", "B">>) :
         optional \in {o \in SUBSET (SeqToSet(ColumnsOf(data_type)) \ required) :
                         Cardinality(o) <= MaxOptional},
         facts \in {{}, FactsOf(data_type)}})

OptionalUploads ==
   UNION {{[key |-> dt, df |-> f] : f \in OptionalFrames(dt)} : dt \in DataTypes}

OptionalInputs(n) ==
   {q \in [1..n -> OptionalUploads] : \A i, j \in 1..n : i # j => q[i].key # q[j].key}

InitOptional ==
   /\ \E n \in 0..MaxOptionalFrames : data_frames \in OptionalInputs(n)
   /\ idx = 0 /\ pc = "analyze"
   /\ all_results = <<>> /\ all_kpis = <<>> /\ all_charts = <<>> /\ enabled_domains = <<>>
   /\ insights = <<>> /\ cross_domain_insights = <<>> /\ recommendations = <<>>
   /\ result = <<>>
   /\ EngineIdle /\ CleanerIdle /\ StagesIdle

\* analyzer.analyze() on the next frame, called outside a try block: an
\* exception ends the run
AnalyzeOptional ==
   /\ pc = "analyze" /\ idx < Len(data_frames)
   /\ LET analysis == Analyze(data_frames[idx + 1].key, data_frames[idx + 1].df)
      IN IF analysis.raised
         THEN pc' = "raised" /\ UNCHANGED all_results
         ELSE /\ pc' = pc
              /\ all_results' =
                    Append(all_results,
                           [key |-> data_frames[idx + 1].key, value |-> model_dump(analysis)])
   /\ idx' = idx + 1
   /\ UNCHANGED <<data_frames, all_kpis, all_charts, enabled_domains, insights,
                  cross_domain_insights, recommendations, result>>
   /\ UNCHANGED <<engineVars, cleanerVars, stageVars>>

NextOptional == AnalyzeOptional \/ CombineInsights

SpecOptional == InitOptional /\ [][NextOptional]_vars

(***************************************************************************)
(* InsightEngine.generate_insights on its own                              *)
(***************************************************************************)

\* the most insights one call is given
MaxInsights == 3

\* the first KeyLen characters of a longer finding
LongFinding ==
   "Category 'Fasteners' has low turnover of 1.2x annually, well below the 4x target set for this class "

\* findings that differ in case and in blanks only, findings that differ
\* past the first KeyLen characters only, and blank findings
Findings ==
   {"Low stock", " LOW STOCK ", "Dead stock", LongFinding \o "SKU-A", LongFinding \o "SKU-B",
    "", "   "}

SortKeys == {<<"critical", CatSales>>, <<"low", CatInventory>>, <<"low", CatSales>>}

InsightPool ==
   {[category |-> k[2], severity |-> k[1], finding |-> f, impact |-> "Capital is frozen",
     action |-> "Run a flash sale", metrics |-> {}] : f \in Findings, k \in SortKeys}

\* the dict given to generate_insights: the insights of a first domain, a
\* value without 'insights', the insights of a second domain
EngineInput(list) ==
   <<[key |-> "inventory",
      value |-> [insights |-> SubSeq(list, 1, Len(list) \div 2)]],
     [key |-> "purchase", value |-> [error |-> "no data"]],
     [key |-> "sales",
      value |-> [insights |-> SubSeq(list, Len(list) \div 2 + 1, Len(list))]]>>

EngineInputs == {EngineInput(list) : list \in UNION {[1..n -> InsightPool] : n \in 0..MaxInsights}}

InitEngine ==
   /\ analysis_results \in EngineInputs
   /\ engine_insights = <<>> /\ engine_pc = "ready"
   /\ OrchIdle /\ CleanerIdle /\ StagesIdle

\* generate_insights(analysis_results)
GenerateInsightsCall ==
   /\ engine_pc = "ready"
   /\ engine_insights' = GenerateInsights(analysis_results)
   /\ engine_pc' = "done"
   /\ UNCHANGED <<analysis_results, orchVars, cleanerVars, stageVars>>

NextEngine == GenerateInsightsCall

SpecEngine == InitEngine /\ [][NextEngine]_vars

(***************************************************************************)
(* One DataCleaner, given a frame and then what it returned                *)
(***************************************************************************)

InitClean ==
   /\ \E columns \in ColumnChoices : cleaner_df \in CleanInputs(columns)
   /\ changes_log = <<>> /\ clean_calls = <<>>
   /\ OrchIdle /\ EngineIdle /\ StagesIdle

\* df, issues = cleaner.clean(df)
Clean ==
   /\ Len(clean_calls) < MaxCleans
   /\ LET cleaned == clean(cleaner_df)
      IN /\ cleaner_df' = cleaned.df
         /\ changes_log' = changes_log \o cleaned.log
         /\ clean_calls' = Append(clean_calls,
                                  [given |-> cleaner_df, returned |-> cleaned.df,
                                   issues |-> cleaned.issues,
                                   changes_count |-> Len(changes_log) + Len(cleaned.log)])
   /\ UNCHANGED <<orchVars, engineVars, stageVars>>

NextClean == Clean

SpecClean == InitClean /\ [][NextClean]_vars

(***************************************************************************)
(* One SchemaDetector: create_schema_match on a frame, normalize_columns,  *)
(* and create_schema_match on the normalized frame                         *)
(***************************************************************************)

\* the most columns of a frame given to the detector
MaxSchemaCols == 2

\* column labels as files carry them: synonyms of canonical fields in
\* several spellings, canonical names, and a label no synonym matches
SchemaLabels ==
   {"Total Revenue", "revenue", "cogs", "Posting Date", "sku", "product_id", "Item Code",
    "wastage", "qty", "quantity", "last_sale", "planned", "unit_cost", "notes"}

\* the frames of at most MaxSchemaCols of them, the labels distinct
SchemaFrames ==
   UNION {{Frame(cols, {}) :
             cols \in {q \in [1..n -> SchemaLabels] : \A i, j \in 1..n : i # j => q[i] # q[j]}} :
            n \in 0..MaxSchemaCols}

InitSchema ==
   /\ schema_df \in SchemaFrames
   /\ schema_type \in DataTypes
   /\ schema_pc = "match" /\ schema_matches = <<>>
   /\ OrchIdle /\ EngineIdle /\ CleanerIdle /\ RerunIdle /\ ReportIdle /\ LoaderIdle /\ ParetoIdle

\* schema_match = detector.create_schema_match(df, data_type)
MatchSchema ==
   /\ schema_pc \in {"match", "rematch"}
   /\ schema_matches' = Append(schema_matches, CreateSchemaMatch(schema_df, schema_type))
   /\ schema_pc' = IF schema_pc = "match" THEN "normalize" ELSE "done"
   /\ UNCHANGED <<schema_df, schema_type, orchVars, engineVars, cleanerVars, rerunVars, reportVars,
                  loaderVars,
                  paretoVars>>

\* df = detector.normalize_columns(df, data_type)
Normalize ==
   /\ schema_pc = "normalize"
   /\ schema_df' = NormalizeColumns(schema_df, schema_type)
   /\ schema_pc' = "rematch"
   /\ UNCHANGED <<schema_type, schema_matches, orchVars, engineVars, cleanerVars, rerunVars, reportVars,
                  loaderVars,
                  paretoVars>>

\* df = detector.normalize_columns(df, data_type) on the normalized frame,
\* as analyze_multi_file does with a frame DataLoader has normalized
NormalizeAgain ==
   /\ schema_pc = "done"
   /\ schema_df' = NormalizeColumns(schema_df, schema_type)
   /\ schema_pc' = "renormalized"
   /\ UNCHANGED <<schema_type, schema_matches, orchVars, engineVars, cleanerVars, rerunVars, reportVars,
                  loaderVars,
                  paretoVars>>

NextSchema == MatchSchema \/ Normalize \/ NormalizeAgain

SpecSchema == InitSchema /\ [][NextSchema]_vars

(***************************************************************************)
(* One inventory record set, analyzed more than once as time passes        *)
(***************************************************************************)

InitRerun ==
   /\ stock_rows \in StockRecordSets
   /\ clock = FirstDay /\ runs = <<>>
   /\ OrchIdle /\ EngineIdle /\ CleanerIdle /\ SchemaIdle /\ ReportIdle /\ LoaderIdle /\ ParetoIdle

\* a day passes
Tick ==
   /\ clock < FirstDay + MaxDays
   /\ clock' = clock + 1
   /\ UNCHANGED <<stock_rows, runs, orchVars, engineVars, cleanerVars, schemaVars, reportVars,
                  loaderVars,
                  paretoVars>>

\* result = InventoryAnalyzer(df).analyze()
RunAgain ==
   /\ Len(runs) < MaxRuns
   /\ runs' = Append(runs, [at |-> clock, result |-> InventoryAnalyzeAt(stock_rows, clock)])
   /\ UNCHANGED <<stock_rows, clock, orchVars, engineVars, cleanerVars, schemaVars, reportVars,
                  loaderVars,
                  paretoVars>>

NextRerun == Tick \/ RunAgain

SpecRerun == InitRerun /\ [][NextRerun]_vars

(***************************************************************************)
(* The engines on their own: the summary, the recommendations and the      *)
(* risks of one list of insights and one dict of analysis results, from    *)
(* the classes of engines/recommendation_engine.py and                     *)
(* engines/risk_engine.py and from the classes the engines package exports *)
(***************************************************************************)

\* the most insights the engines are given
MaxReportInsights == 2

\* a finding, and two findings that differ past their 44th character only
ReportFindings ==
   {<<CatInventory, "Dead stock worth $5,000 has not moved for 260 days">>,
    <<CatPurchase, "Supplier on-time delivery rate has fallen below target: 72%">>,
    <<CatPurchase, "Supplier on-time delivery rate has fallen below target: 64%">>}

ReportInsightPool ==
   {[category |-> f[1], severity |-> sev, finding |-> f[2], impact |-> "Capital is frozen",
     action |-> "Run a flash sale", metrics |-> {}] : f \in ReportFindings, sev \in Severities}

\* the model_dump of an analysis with these KPIs, in this order
ResultOf(domain, kpi_order, kpis) ==
   [key |-> domain, value |-> [domain |-> domain, kpis |-> kpis, kpi_order |-> kpi_order]]

FinancialKpis(net_margin_pct) ==
   ResultOf("financial", <<"total_revenue", "net_margin_pct", "revenue_growth">>,
            [total_revenue |-> 1000, net_margin_pct |-> net_margin_pct, revenue_growth |-> 0 - 2])

StockKpis(days_inventory_outstanding) ==
   ResultOf("inventory", <<"total_stock_value", "days_inventory_outstanding">>,
            [total_stock_value |-> 5000,
             days_inventory_outstanding |-> days_inventory_outstanding])

\* no analysis, a thin margin and slow stock, a healthy margin and fast
\* stock, slow stock alone
ReportResults ==
   {<<>>, <<FinancialKpis(3), StockKpis(120)>>, <<FinancialKpis(12), StockKpis(45)>>,
    <<StockKpis(120)>>}

InitReport ==
   /\ report_insights \in UNION {[1..n -> ReportInsightPool] : n \in 0..MaxReportInsights}
   /\ report_results \in ReportResults
   /\ report_pc = "summary" /\ report = NoReport
   /\ OrchIdle /\ EngineIdle /\ CleanerIdle /\ SchemaIdle /\ RerunIdle /\ LoaderIdle /\ ParetoIdle

\* InsightEngine().generate_executive_summary(insights, kpis) on the merged
\* KPIs
ReportSummary ==
   /\ report_pc = "summary"
   /\ report' = [report EXCEPT !.executive_summary =
                    GenerateExecutiveSummary(report_insights, MergeKpis(report_results, 1))]
   /\ report_pc' = "recommend"
   /\ UNCHANGED <<report_insights, report_results, orchVars, engineVars, cleanerVars,
                  schemaVars, rerunVars, loaderVars,
                  paretoVars>>

\* engines.recommendation_engine.RecommendationEngine().generate_recommendations
ReportRecommendations ==
   /\ report_pc = "recommend"
   /\ report' = [report EXCEPT !.action_plan =
                    generate_recommendations(report_insights).recommendations]
   /\ report_pc' = "exported_recommend"
   /\ UNCHANGED <<report_insights, report_results, orchVars, engineVars, cleanerVars,
                  schemaVars, rerunVars, loaderVars,
                  paretoVars>>

\* engines.RecommendationEngine().generate_recommendations
ReportExportedRecommendations ==
   /\ report_pc = "exported_recommend"
   /\ report' = [report EXCEPT !.exported_action_plan =
                    insight_engine_generate_recommendations(report_insights)]
   /\ report_pc' = "risks"
   /\ UNCHANGED <<report_insights, report_results, orchVars, engineVars, cleanerVars,
                  schemaVars, rerunVars, loaderVars,
                  paretoVars>>

\* engines.risk_engine.RiskEngine().identify_risks(analysis_results, insights)
ReportRisks ==
   /\ report_pc = "risks"
   /\ report' = [report EXCEPT !.critical_risks =
                    identify_risks(report_results, report_insights)]
   /\ report_pc' = "exported_risks"
   /\ UNCHANGED <<report_insights, report_results, orchVars, engineVars, cleanerVars,
                  schemaVars, rerunVars, loaderVars,
                  paretoVars>>

\* engines.RiskEngine().identify_risks(analysis_results, insights)
ReportExportedRisks ==
   /\ report_pc = "exported_risks"
   /\ report' = [report EXCEPT !.exported_risks =
                    insight_engine_identify_risks(report_results, report_insights)]
   /\ report_pc' = "done"
   /\ UNCHANGED <<report_insights, report_results, orchVars, engineVars, cleanerVars,
                  schemaVars, rerunVars, loaderVars,
                  paretoVars>>

NextReport ==
   \/ ReportSummary \/ ReportRecommendations \/ ReportExportedRecommendations
   \/ ReportRisks \/ ReportExportedRisks

SpecReport == InitReport /\ [][NextReport]_vars

(***************************************************************************)
(* data_loader/loader.py: DataLoader.load_file on one file, stage by       *)
(* stage, and the analyzer run on the frame it returns                     *)
(***************************************************************************)

\* the most rows and columns of a file
MaxLoadRows == 2
MaxLoadCols == 2

\* the columns a file is made of
LoadColumns ==
   <<[name |-> "Total Revenue", dtype |-> "float64", cells |-> {Null, Num(0 - 1), Num(5)}],
     [name |-> "Posting Date", dtype |-> "object", cells |-> {Null, Str("2024-01-15")}],
     [name |-> "qty", dtype |-> "float64", cells |-> {Null, Num(5)}],
     [name |-> "SKU", dtype |-> "object", cells |-> {Str("A-1")}],
     [name |-> "Status", dtype |-> "object", cells |-> {Str("In Stock")}],
     [name |-> "2024", dtype |-> "float64", cells |-> {Num(5)}]>>

\* one to MaxLoadCols of the columns, left to right
LoadColumnChoices ==
   {q \in UNION {[1..n -> 1..Len(LoadColumns)] : n \in 1..MaxLoadCols} :
      \A i, j \in 1..Len(q) : i < j => q[i] < q[j]}

\* the files of the given columns, of no row to MaxLoadRows rows
FilesWith(columns) ==
   Let({row \in [1..Len(columns) -> UNION {LoadColumns[c].cells : c \in 1..Len(LoadColumns)}] :
          \A k \in 1..Len(columns) : row[k] \in LoadColumns[columns[k]].cells}, LAMBDA rows :
      {[cols |-> [k \in 1..Len(columns) |-> LoadColumns[columns[k]].name],
        dtypes |-> [k \in 1..Len(columns) |-> LoadColumns[columns[k]].dtype],
        rows |-> q] : q \in UNION {[1..n -> rows] : n \in 0..MaxLoadRows}})

\* files with enough rows for the outlier check and for a low missing rate:
\* one revenue far from the others, and no date to two dates missing
LongFiles ==
   {[cols |-> <<"Total Revenue", "Posting Date">>, dtypes |-> <<"float64", "object">>,
     rows |-> [r \in 1..11 |-> <<IF r = 11 THEN Num(1000) ELSE Num(r),
                                 IF r <= missing THEN Null ELSE Str("2024-01-15")>>]] :
      missing \in 0..2}

LoadInputs(columns) == FilesWith(columns) \cup LongFiles

\* create_schema_match(df, data_type), with its early return for UNKNOWN
create_schema_match(df, data_type) ==
   IF data_type = "unknown" THEN NoSchemaMatch
   ELSE CreateSchemaMatch(Frame(df.cols, {}), data_type)

\* the file a DataLoader has loaded before
PreviousFile ==
   [cols |-> <<"Total Revenue">>, dtypes |-> <<"float64">>, rows |-> <<<<Num(5)>>>>]

\* <<raw_data, data_type, schema_match, quality_report, cleaned_data>> after
\* load_file has returned
Loaded(file) ==
   Let(detect_data_type(file), LAMBDA t :
      Let(normalize_columns(file, t), LAMBDA normalized_df :
         Let(clean(normalized_df), LAMBDA cleaned :
            <<file, t, create_schema_match(file, t),
              [validate(normalized_df, t) EXCEPT !.issues = @ \o cleaned.issues],
              cleaned.df>>)))

\* the five fields of a new DataLoader
NothingLoaded == <<NoFrame, "", NoSchemaMatch, NoQualityReport, NoFrame>>

\* a DataLoader, new or one that has loaded a file, is given a file
InitLoad ==
   /\ \E columns \in LoadColumnChoices : loader_file \in LoadInputs(columns)
   /\ loader_pc = "load" /\ loader_trace = <<>> /\ loader_df = NoFrame
   /\ \E previous \in {NothingLoaded, Loaded(PreviousFile)} :
         /\ loader_raw_data = previous[1] /\ loader_data_type = previous[2]
         /\ loader_schema_match = previous[3] /\ loader_quality_report = previous[4]
         /\ loader_cleaned_data = previous[5]
   /\ OrchIdle /\ EngineIdle /\ CleanerIdle /\ SchemaIdle /\ RerunIdle /\ ReportIdle
   /\ ParetoIdle

LoaderRest ==
   <<loader_file, loader_raw_data, loader_data_type, loader_schema_match, loader_df,
     loader_quality_report,
     loader_cleaned_data>>

\* load_file up to self._raw_data = df.copy(): the five fields are reset,
\* ValueError on an empty frame
LoadData ==
   /\ loader_pc = "load"
   /\ loader_data_type' = "" /\ loader_schema_match' = NoSchemaMatch
   /\ loader_quality_report' = NoQualityReport /\ loader_cleaned_data' = NoFrame
   /\ IF loader_file.rows = <<>>
      THEN loader_pc' = "raised" /\ loader_raw_data' = NoFrame /\ UNCHANGED loader_df
      ELSE loader_pc' = "detect" /\ loader_raw_data' = loader_file /\ loader_df' = loader_file
   /\ UNCHANGED <<loader_file, loader_trace, orchVars, engineVars, cleanerVars, schemaVars,
                  rerunVars, reportVars, paretoVars>>

\* self._data_type = detect_data_type(df) and
\* self._schema_match = create_schema_match(df, self._data_type)
DetectDataType ==
   /\ loader_pc = "detect"
   /\ loader_trace' = Append(loader_trace, "detect")
   /\ IF detect_data_type_raises(loader_df)
      THEN loader_pc' = "raised" /\ UNCHANGED <<loader_data_type, loader_schema_match>>
      ELSE /\ loader_data_type' = detect_data_type(loader_df)
           /\ loader_schema_match' = create_schema_match(loader_df, loader_data_type')
           /\ loader_pc' = "normalize"
   /\ UNCHANGED <<loader_file, loader_raw_data, loader_df, loader_quality_report,
                  loader_cleaned_data, orchVars, engineVars, cleanerVars, schemaVars,
                  rerunVars, reportVars, paretoVars>>

\* normalized_df = normalize_columns(df, self._data_type)
NormalizeLoaded ==
   /\ loader_pc = "normalize"
   /\ loader_df' = normalize_columns(loader_df, loader_data_type)
   /\ loader_trace' = Append(loader_trace, "normalize")
   /\ loader_pc' = "validate"
   /\ UNCHANGED <<loader_file, loader_raw_data, loader_data_type, loader_schema_match, loader_quality_report,
                  loader_cleaned_data, orchVars, engineVars, cleanerVars, schemaVars,
                  rerunVars, reportVars,
                  paretoVars>>

\* self._quality_report = validate(normalized_df, self._data_type)
Validate ==
   /\ loader_pc = "validate"
   /\ loader_trace' = Append(loader_trace, "validate")
   /\ IF validate_raises(loader_df)
      THEN loader_pc' = "raised" /\ UNCHANGED loader_quality_report
      ELSE /\ loader_quality_report' = validate(loader_df, loader_data_type)
           /\ loader_pc' = "clean"
   /\ UNCHANGED <<loader_file, loader_raw_data, loader_data_type, loader_schema_match, loader_df,
                  loader_cleaned_data, orchVars, engineVars, cleanerVars, schemaVars,
                  rerunVars, reportVars,
                  paretoVars>>

\* cleaned_df, cleaning_issues = clean(normalized_df), and the issues
\* appended to the report
CleanLoaded ==
   /\ loader_pc = "clean"
   /\ LET cleaned == clean(loader_df)
      IN /\ loader_cleaned_data' = cleaned.df
         /\ loader_quality_report' =
               [loader_quality_report EXCEPT !.issues = @ \o cleaned.issues]
   /\ loader_trace' = Append(loader_trace, "clean")
   /\ loader_pc' = "loaded"
   /\ UNCHANGED <<loader_file, loader_raw_data, loader_data_type, loader_schema_match, loader_df, orchVars,
                  engineVars, cleanerVars, schemaVars, rerunVars, reportVars,
                  paretoVars>>

\* analyze(file_path) after load_file: the analyzer of the detected type is
\* run on the frame load_file returned, ValueError for the type UNKNOWN
AnalyzeLoaded ==
   /\ loader_pc = "loaded"
   /\ IF loader_data_type = "unknown"
      THEN loader_pc' = "raised" /\ UNCHANGED loader_trace
      ELSE loader_pc' = "analyzed" /\ loader_trace' = Append(loader_trace, "analyze")
   /\ UNCHANGED <<LoaderRest, orchVars, engineVars, cleanerVars, schemaVars, rerunVars,
                  reportVars,
                  paretoVars>>

NextLoad ==
   \/ LoadData \/ DetectDataType \/ NormalizeLoaded \/ Validate \/ CleanLoaded
   \/ AnalyzeLoaded

SpecLoad == InitLoad /\ [][NextLoad]_vars

(***************************************************************************)
(* Record sets of exactly the required columns, through                    *)
(* create_schema_match, normalize_columns and validate                     *)
(***************************************************************************)

MaxRequiredRows == 2

\* the columns that hold text, all others hold numbers
TextColumns == {"period", "product_id", "sku", "order_id", "po_number", "supplier_id", "supplier"}

\* the values of a column: present and not negative
RequiredCells(col) ==
   IF col = "period" THEN {Str("2024-01-15"), Str("2024-02-15")}
   ELSE IF col \in TextColumns THEN {Str("A-1"), Str("B-2")}
   ELSE {Num(1), Num(5)}

\* the record sets of exactly the given columns, of one row to
\* MaxRequiredRows rows, no row twice
RequiredFiles(required) ==
   Let({row \in [1..Len(required) -> UNION {RequiredCells(required[k]) : k \in 1..Len(required)}] :
          \A k \in 1..Len(required) : row[k] \in RequiredCells(required[k])}, LAMBDA rows :
      {[cols |-> required,
        dtypes |-> [k \in 1..Len(required) |->
                      IF required[k] \in TextColumns THEN "object" ELSE "float64"],
        rows |-> q] :
         q \in {r \in UNION {[1..n -> rows] : n \in 1..MaxRequiredRows} :
                  \A i, j \in 1..Len(r) : i # j => r[i] # r[j]}})

\* the required fields as the detector and as the validator list them
InitRequired ==
   /\ loader_data_type \in DataTypes
   /\ loader_file \in RequiredFiles(GetRequiredFields(loader_data_type))
                         \cup RequiredFiles(REQUIRED_COLUMNS(loader_data_type))
   /\ loader_df = loader_file /\ loader_raw_data = NoFrame
   /\ loader_pc = "match" /\ loader_trace = <<>>
   /\ loader_schema_match = NoSchemaMatch
   /\ loader_quality_report = NoQualityReport /\ loader_cleaned_data = NoFrame
   /\ OrchIdle /\ EngineIdle /\ CleanerIdle /\ SchemaIdle /\ RerunIdle /\ ReportIdle
   /\ ParetoIdle

\* schema_match = create_schema_match(df, data_type)
MatchRequired ==
   /\ loader_pc = "match"
   /\ loader_schema_match' = create_schema_match(loader_df, loader_data_type)
   /\ loader_trace' = Append(loader_trace, "match")
   /\ loader_pc' = "normalize"
   /\ UNCHANGED <<loader_file, loader_raw_data, loader_data_type, loader_df, loader_quality_report,
                  loader_cleaned_data, orchVars, engineVars, cleanerVars, schemaVars,
                  rerunVars, reportVars,
                  paretoVars>>

NextRequired == MatchRequired \/ NormalizeLoaded \/ Validate

SpecRequired == InitRequired /\ [][NextRequired]_vars

(***************************************************************************)
(* BaseAnalyzer.pareto_analysis on rows of a category and a value          *)
(***************************************************************************)

MaxParetoRows == 3

ParetoCategories == {"A", "B", "C"}

\* amounts, none negative
ParetoValues == {0, 10, 20, 40, 80}

ParetoInputs ==
   UNION {[1..n -> [category : ParetoCategories, value : ParetoValues]] : n \in 1..MaxParetoRows}

\* the sum of the values of one category
RECURSIVE CategorySum(_, _, _)
CategorySum(rows, category, i) ==
   IF i > Len(rows) THEN 0
   ELSE (IF rows[i].category = category THEN rows[i].value ELSE 0)
           + CategorySum(rows, category, i + 1)

\* the sums of the given categories, the largest first
RECURSIVE SortDescending(_, _)
SortDescending(rows, categories) ==
   IF categories = {} THEN <<>>
   ELSE Let(CHOOSE c \in categories :
               \A d \in categories : CategorySum(rows, c, 1) >= CategorySum(rows, d, 1),
            LAMBDA c : <<CategorySum(rows, c, 1)>> \o SortDescending(rows, categories \ {c}))

\* agg = df.groupby(category_col)[value_col].sum().sort_values(ascending=False)
GroupedSums(rows) == SortDescending(rows, {rows[i].category : i \in 1..Len(rows)})

\* agg.head(n).sum(), which is cumulative[n]
RECURSIVE HeadSum(_, _)
HeadSum(agg, n) == IF n <= 0 THEN 0 ELSE agg[n] + HeadSum(agg, n - 1)

Min(a, b) == IF a <= b THEN a ELSE b

\* (cumulative_pct <= 80).sum() + 1, then min(items_for_80, len(agg));
\* cumulative / total * 100 <= 80 for a total above zero
items_for_80(agg) ==
   Let(HeadSum(agg, Len(agg)), LAMBDA total :
      Min(Cardinality({i \in 1..Len(agg) : 100 * HeadSum(agg, i) <= 80 * total}) + 1,
          Len(agg)))

\* top_20_pct = agg.head(int(len(agg) * 0.2)).sum() if len(agg) > 5 else
\* agg.head(1).sum(), and the concentration it gives
concentration(agg) ==
   Let(HeadSum(agg, Len(agg)), LAMBDA total :
      Let(IF Len(agg) > 5 THEN HeadSum(agg, Len(agg) \div 5) ELSE HeadSum(agg, 1),
          LAMBDA top_20_pct :
             IF 100 * top_20_pct > 80 * total THEN "HIGH"
             ELSE IF 100 * top_20_pct > 60 * total THEN "MEDIUM" ELSE "LOW"))

\* pareto_analysis(category_col, value_col) on rows that have both columns
ParetoResult(rows) ==
   Let(GroupedSums(rows), LAMBDA agg :
      IF HeadSum(agg, Len(agg)) = 0 THEN [error |-> "Total value is zero"]
      ELSE [total_value |-> HeadSum(agg, Len(agg)),
            items_for_80_pct |-> items_for_80(agg),
            items_for_80_contribution |-> HeadSum(agg, items_for_80(agg)),
            concentration |-> concentration(agg),
            full_pareto |-> agg])

InitPareto ==
   /\ pareto_data \in ParetoInputs
   /\ pareto_pc = "call" /\ pareto_result = <<>>
   /\ OrchIdle /\ EngineIdle /\ CleanerIdle /\ SchemaIdle /\ RerunIdle /\ ReportIdle
   /\ LoaderIdle

ParetoAnalysis ==
   /\ pareto_pc = "call"
   /\ pareto_result' = ParetoResult(pareto_data)
   /\ pareto_pc' = "returned"
   /\ UNCHANGED <<pareto_data, orchVars, engineVars, cleanerVars, schemaVars, rerunVars,
                  reportVars, loaderVars>>

NextPareto == ParetoAnalysis

SpecPareto == InitPareto /\ [][NextPareto]_vars

(***************************************************************************)
(* DataValidator.validate called on a frame of any cells                   *)
(***************************************************************************)

MaxValidateRows == 2

\* a column of amounts and a column of objects
ValidateColumns ==
   <<[name |-> "revenue", dtype |-> "float64", cells |-> {Null, Num(0 - 1), Num(5)}],
     [name |-> "tags", dtype |-> "object", cells |-> {Null, Str("new"), ListCell}]>>

ValidateInputs ==
   Let({row \in [1..2 -> ValidateColumns[1].cells \cup ValidateColumns[2].cells] :
          \A k \in 1..2 : row[k] \in ValidateColumns[k].cells}, LAMBDA rows :
      {[cols |-> <<ValidateColumns[1].name, ValidateColumns[2].name>>,
        dtypes |-> <<ValidateColumns[1].dtype, ValidateColumns[2].dtype>>,
        rows |-> q] : q \in UNION {[1..n -> rows] : n \in 0..MaxValidateRows}})

InitValidate ==
   /\ loader_df \in ValidateInputs
   /\ loader_file = loader_df /\ loader_raw_data = NoFrame
   /\ loader_data_type \in DataTypes \cup {"unknown"}
   /\ loader_pc = "validate" /\ loader_trace = <<>>
   /\ loader_schema_match = NoSchemaMatch
   /\ loader_quality_report = NoQualityReport /\ loader_cleaned_data = NoFrame
   /\ OrchIdle /\ EngineIdle /\ CleanerIdle /\ SchemaIdle /\ RerunIdle /\ ReportIdle
   /\ ParetoIdle

NextValidate == Validate

SpecValidate == InitValidate /\ [][NextValidate]_vars

(***************************************************************************)
(* Properties of analyze_multi_file                                        *)
(***************************************************************************)

Returned == pc = "returned"
LoopDone == pc # "loop" \/ idx = Len(data_frames)

\* the entries whose schema match has confidence below 0.5 or matches fewer
\* than half of the required fields of the data type
FailsGate ==
   [u \in Uploads |->
      /\ dt_map(u.key) # ""
      /\ u.df.kind = "table"
      /\ Let(CreateSchemaMatch(u.df, dt_map(u.key)), LAMBDA m :
            \/ m.confidence < 50
            \/ 2 * Cardinality(RequiredMatched(m.column_mappings, dt_map(u.key)))
                  < Len(GetRequiredFields(dt_map(u.key))))]

\* the entries on which a step of the loop body raises
RaisesInLoop ==
   [u \in Uploads |->
      Let(dt_map(u.key), LAMBDA data_type_enum :
         /\ data_type_enum # ""
         /\ \/ u.df.kind # "table"
            \/ /\ ~FailsGate[u]
               /\ Let(NormalizeColumns(u.df, data_type_enum), LAMBDA df_normalized :
                     Analyze(data_type_enum, df_normalized).raised))]

\* C1: a supplied domain that fails the gate (confidence below 0.5, or
\* fewer than half of the required fields matched) is never in
\* enabled_domains and has no entry in kpis, charts_data or
\* insights_by_category, during the call and in the returned result.
C1_GateSafety ==
   \A i \in 1..Len(data_frames) :
      FailsGate[data_frames[i]] =>
         /\ ~InSeq(data_frames[i].key, enabled_domains)
         /\ data_frames[i].key \notin Keys(all_kpis) \cup Keys(all_charts)
         /\ Returned =>
               /\ ~InSeq(data_frames[i].key, result[1].enabled_domains)
               /\ data_frames[i].key \notin
                     Keys(result[1].kpis) \cup Keys(result[1].charts_data)
                        \cup Keys(result[1].insights_by_category)

\* a call has returned a result with an enabled domain although another
\* supplied domain failed the gate
C1_Witness ==
   /\ Returned
   /\ result[1].enabled_domains # <<>>
   /\ \E i \in 1..Len(data_frames) : FailsGate[data_frames[i]]

\* C2: in every returned result the key sets of kpis, charts_data and
\* insights_by_category each equal the set of enabled_domains.
C2_KeySetsEqualEnabled ==
   Returned =>
      /\ Keys(result[1].kpis) = SeqToSet(result[1].enabled_domains)
      /\ Keys(result[1].charts_data) = SeqToSet(result[1].enabled_domains)
      /\ Keys(result[1].insights_by_category) = SeqToSet(result[1].enabled_domains)

\* every supplied entry is rejected: unknown key, failed gate or exception
AllRejected == \A i \in 1..Len(data_frames) : ~Outcome[data_frames[i]].enabled

\* C3: given an empty map, or a map of which every entry is rejected, the
\* call does not raise and what it returns has no enabled domain, zero
\* totals, empty maps and lists, and the summary line that says no valid
\* data was detected.
C3_EmptyResult ==
   (LoopDone /\ AllRejected) =>
      /\ pc \in {"loop", "returned"}
      /\ Returned =>
            /\ result[1].enabled_domains = <<>>
            /\ result[1].total_insights = 0
            /\ result[1].critical_count = 0
            /\ result[1].kpis = <<>>
            /\ result[1].insights_by_category = <<>>
            /\ result[1].cross_domain_insights = <<>>
            /\ result[1].critical_risks = <<>>
            /\ result[1].action_plan = <<>>
            /\ Len(result[1].executive_summary) > 0
            /\ \A k \in 1..Len(result[1].executive_summary) :
                  Contains(result[1].executive_summary[k], "No valid data detected")

\* a call given two entries, one rejected by the gate and one by an
\* exception, has returned
C3_Witness ==
   /\ Returned /\ AllRejected
   /\ \E i, j \in 1..Len(data_frames) :
         FailsGate[data_frames[i]] /\ RaisesInLoop[data_frames[j]]

RECURSIVE LoopOver(_, _)
\* what the loop writes to all_results for the entries i.. of a dict
LoopOver(entries, i) ==
   IF i > Len(entries) THEN <<>>
   ELSE (IF Outcome[entries[i]].enabled
         THEN <<[key |-> entries[i].key, value |-> model_dump(Outcome[entries[i]].result)]>>
         ELSE <<>>)
        \o LoopOver(entries, i + 1)

\* C4: an entry on which the loop body raises is not enabled and leaves
\* nothing in the result, KPI and chart maps, and the maps after the loop
\* are those of the same call without the raising entries.
C4_ExceptionIsolation ==
   /\ \A i \in 1..idx :
         RaisesInLoop[data_frames[i]] =>
            /\ ~InSeq(data_frames[i].key, enabled_domains)
            /\ data_frames[i].key \notin
                  Keys(all_results) \cup Keys(all_kpis) \cup Keys(all_charts)
   /\ LoopDone =>
         Let(LoopOver(SelectSeq(data_frames, LAMBDA u : ~RaisesInLoop[u]), 1), LAMBDA others :
            /\ all_results = others
            /\ enabled_domains = [k \in 1..Len(others) |-> others[k].key]
            /\ all_kpis = [k \in 1..Len(others) |->
                             [key |-> others[k].key, value |-> others[k].value.kpis]]
            /\ all_charts = [k \in 1..Len(others) |->
                               [key |-> others[k].key, value |-> others[k].value.charts_data]])

\* the loop is over, its first entry raised and its second is enabled
C4_Witness ==
   /\ LoopDone /\ Len(data_frames) = 2
   /\ RaisesInLoop[data_frames[1]]
   /\ enabled_domains = <<data_frames[2].key>>

\* C5: with at least one domain enabled the call returns without raising,
\* and its action_plan has one recommendation for each insight and each
\* cross-domain insight: len(action_plan) = total_insights =
\* len(insights) + len(cross_domain_insights).
C5_OneRecommendationEach ==
   /\ pc # "raised"
   /\ (Returned /\ enabled_domains # <<>>) =>
         /\ Len(result[1].action_plan) = result[1].total_insights
         /\ result[1].total_insights = Len(insights) + Len(cross_domain_insights)

\* the number of insights of a category
CountCategory(list, category) ==
   Cardinality({i \in 1..Len(list) : list[i].category = category})

HasFinding(list, text) == \E i \in 1..Len(list) : list[i].finding = text

\* C6: cross_domain_insights is empty with fewer than 2 domains enabled;
\* with 2 or more it holds the working-capital insight exactly when there
\* are at least 3 inventory and 1 sales insights, the cost-driver insight
\* exactly when there are at least 2 financial and 2 manufacturing
\* insights, the supplier insight exactly when there are at least 2
\* inventory and 1 purchase insights, and nothing else.
C6_CrossDomainThresholds ==
   pc \in {"recommend", "assemble", "returned", "raised"} =>
      /\ Len(enabled_domains) < 2 => cross_domain_insights = <<>>
      /\ Len(enabled_domains) >= 2 =>
            /\ HasFinding(cross_domain_insights,
                          "Multiple inventory issues detected alongside sales concerns")
                  <=> (CountCategory(insights, CatInventory) >= 3
                       /\ CountCategory(insights, CatSales) >= 1)
            /\ HasFinding(cross_domain_insights,
                          "Financial costs correlated with manufacturing issues")
                  <=> (CountCategory(insights, CatFinancial) >= 2
                       /\ CountCategory(insights, CatManufacturing) >= 2)
            /\ HasFinding(cross_domain_insights,
                          "Inventory issues may relate to purchase/supplier performance")
                  <=> (CountCategory(insights, CatInventory) >= 2
                       /\ CountCategory(insights, CatPurchase) >= 1)
            /\ Len(cross_domain_insights)
                  = Cardinality({cross_domain_insights[k].finding :
                                   k \in 1..Len(cross_domain_insights)})
            /\ \A k \in 1..Len(cross_domain_insights) :
                  cross_domain_insights[k].finding \in
                     {"Multiple inventory issues detected alongside sales concerns",
                      "Financial costs correlated with manufacturing issues",
                      "Inventory issues may relate to purchase/supplier performance"}

\* two domains are enabled, with exactly two inventory insights and a
\* purchase insight: the supplier insight is there, the working-capital
\* one is not
C6_Witness ==
   /\ pc \in {"recommend", "assemble", "returned", "raised"}
   /\ Len(enabled_domains) = 2
   /\ CountCategory(insights, CatInventory) = 2
   /\ CountCategory(insights, CatPurchase) >= 1
   /\ HasFinding(cross_domain_insights,
                 "Inventory issues may relate to purchase/supplier performance")

(***************************************************************************)
(* Properties of the insights                                              *)
(***************************************************************************)

WellFormed(insight) ==
   Len(insight.finding) > 0 /\ Len(insight.impact) > 0 /\ Len(insight.action) > 0

\* C7: every insight in the list an analyzer's analyze() returns, and
\* every cross-domain insight the orchestrator builds, has a non-empty
\* finding, a non-empty impact and a non-empty action.
C7_InsightsWellFormed ==
   /\ \A k \in 1..Len(all_results) :
         \A j \in 1..Len(all_results[k].value.insights) :
            WellFormed(all_results[k].value.insights[j])
   /\ \A k \in 1..Len(cross_domain_insights) : WellFormed(cross_domain_insights[k])

\* two analyzers have each returned five insights or more on frames whose
\* group labels are empty strings, and a cross-domain insight is built
C7_Witness ==
   /\ pc = "combined" /\ Len(all_results) = 2
   /\ \A k \in 1..2 :
         /\ data_frames[k].df.who = "" /\ data_frames[k].df.names = <<"">>
         /\ Len(all_results[k].value.insights) >= 5
   /\ cross_domain_insights # <<>>

(***************************************************************************)
(* Properties of generate_insights                                         *)
(***************************************************************************)

EngineDone == engine_pc = "done"

\* the insights given to the call, in domain order then list order
GivenInsights ==
   analysis_results[1].value.insights \o analysis_results[3].value.insights

SeverityRank == [s \in Severities |->
                   CASE s = "critical" -> 0 [] s = "high" -> 1 [] s = "medium" -> 2 [] s = "low" -> 3]

SameSortKey(a, b) == a.severity = b.severity /\ a.category = b.category

\* a is to come before b: a higher severity, or the same severity and a
\* category name that is smaller
Precedes(a, b) ==
   \/ SeverityRank[a.severity] < SeverityRank[b.severity]
   \/ a.severity = b.severity /\ StrLess(a.category, b.category)

\* the first place of x in the list
FirstPlace(list, x) == CHOOSE k \in 1..Len(list) : list[k] = x /\ \A j \in 1..(k - 1) : list[j] # x

\* C8: the list generate_insights returns is sorted by severity rank
\* CRITICAL < HIGH < MEDIUM < LOW and, within a severity, by category name;
\* insights equal in both keep their input order; no insight of lower
\* severity precedes one of higher severity.
C8_SortedAndStable ==
   EngineDone =>
      \A i, j \in 1..Len(engine_insights) :
         i < j =>
            /\ ~Precedes(engine_insights[j], engine_insights[i])
            /\ SeverityRank[engine_insights[i].severity] <= SeverityRank[engine_insights[j].severity]
            /\ SameSortKey(engine_insights[i], engine_insights[j]) =>
                  FirstPlace(GivenInsights, engine_insights[i])
                     < FirstPlace(GivenInsights, engine_insights[j])

\* three insights are returned, two of them equal in severity and
\* category, and the call was given them in another order
C8_Witness ==
   /\ EngineDone /\ Len(engine_insights) = 3
   /\ SameSortKey(engine_insights[2], engine_insights[3])
   /\ ~SameSortKey(engine_insights[1], engine_insights[2])
   /\ engine_insights # GivenInsights

\* the key of every finding: its first 100 characters, lower-cased and
\* trimmed
KeyOfFinding == [f \in Findings |-> Strip(Lower(Take(f, 100)))]

KeyOf(insight) == KeyOfFinding[insight.finding]

GivenKeys == [k \in 1..Len(GivenInsights) |-> KeyOf(GivenInsights[k])]

\* the given insight at place k is among the returned ones
Retained(k) ==
   \E i \in 1..Len(engine_insights) :
      /\ engine_insights[i] = GivenInsights[k]
      /\ \A j \in 1..(k - 1) : GivenInsights[j] # GivenInsights[k]

NoTwoShareKey ==
   \A i, j \in 1..Len(engine_insights) :
      i # j => KeyOf(engine_insights[i]) # KeyOf(engine_insights[j])

OnlyGivenReturned ==
   \A i \in 1..Len(engine_insights) :
      \E k \in 1..Len(GivenInsights) : GivenInsights[k] = engine_insights[i]

\* C9 as stated: no two returned insights have the same key; for each key
\* in the input the first insight with it is the one retained; an insight
\* is dropped only when an earlier one has the same key.
C9_DedupAsStated ==
   EngineDone =>
      /\ NoTwoShareKey /\ OnlyGivenReturned
      /\ \A k \in 1..Len(GivenInsights) :
            /\ (\A j \in 1..(k - 1) : GivenKeys[j] # GivenKeys[k]) => Retained(k)
            /\ ~Retained(k) => \E j \in 1..(k - 1) : GivenKeys[j] = GivenKeys[k]

\* C9, amended: no two returned insights have the same key; for each
\* non-empty key in the input the first insight with it is the one
\* retained; an insight is dropped only when an earlier one has the same
\* key or its own key is empty.
C9_DedupNonEmptyKeys ==
   EngineDone =>
      /\ NoTwoShareKey /\ OnlyGivenReturned
      /\ \A k \in 1..Len(GivenInsights) :
            /\ (GivenKeys[k] # "" /\ \A j \in 1..(k - 1) : GivenKeys[j] # GivenKeys[k])
                  => Retained(k)
            /\ ~Retained(k) =>
                  \/ GivenKeys[k] = ""
                  \/ \E j \in 1..(k - 1) : GivenKeys[j] = GivenKeys[k]

\* the call was given three different insights: two with one key, the
\* first of which is returned, and one with an empty key, which is not
C9_Witness ==
   /\ EngineDone /\ Len(GivenInsights) = 3 /\ Len(engine_insights) = 1
   /\ GivenKeys[1] # "" /\ GivenKeys[2] = GivenKeys[1] /\ GivenKeys[3] = ""
   /\ GivenInsights[1].finding # GivenInsights[2].finding
   /\ engine_insights[1] = GivenInsights[1]

(***************************************************************************)
(* Properties of DataCleaner.clean                                         *)
(***************************************************************************)

\* get_changes_summary()['changes_count'] before the k-th call of clean()
ChangesCountBefore(k) == IF k = 1 THEN 0 ELSE clean_calls[k - 1].changes_count

\* the k-th call logged nothing, returned no issue and returned the
\* records it was given
NoOp(k) ==
   /\ clean_calls[k].changes_count = ChangesCountBefore(k)
   /\ clean_calls[k].issues = <<>>
   /\ clean_calls[k].returned.cols = clean_calls[k].given.cols
   /\ clean_calls[k].returned.rows = clean_calls[k].given.rows

\* C10: clean() on the records a previous clean() returned is a no-op: it
\* appends nothing to the audit log (changes_count does not grow), returns
\* no quality issues and returns records equal to its input.
C10_SecondCleanNoOp == \A k \in 2..Len(clean_calls) : NoOp(k)

(***************************************************************************)
(* Properties of SchemaDetector                                            *)
(***************************************************************************)

\* [m.expected_field for m in schema_match.column_mappings], as a set
MatchedFields(schema_match) ==
   {schema_match.column_mappings[i].expected_field :
       i \in 1..Len(schema_match.column_mappings)}

\* C11: for every frame and every data type, create_schema_match on the
\* frame that normalize_columns returns matches the same set of canonical
\* fields as create_schema_match on the frame it was given.
C11_NormalizeKeepsFields ==
   schema_pc = "done" =>
      MatchedFields(schema_matches[2]) = MatchedFields(schema_matches[1])

(***************************************************************************)
(* Properties of repeated runs of an analyzer                              *)
(***************************************************************************)

\* C12: two runs of analyze() on the same record set with the same
\* configuration return identical KPI maps and identical ordered insight
\* lists, whenever the two runs are executed.
C12_RunsIdentical ==
   \A i, j \in 1..Len(runs) :
      /\ runs[i].result.kpis = runs[j].result.kpis
      /\ runs[i].result.insights = runs[j].result.insights

(***************************************************************************)
(* Properties of the recommendation engines                                *)
(***************************************************************************)

\* the priority and the timeline the specification gives a severity
PriorityOf(severity) ==
   CASE severity = "critical" -> "immediate"
     [] severity \in {"high", "medium"} -> "short_term"
     [] severity = "low" -> "medium_term"

\* TimeHorizon of the same name as the Priority
TimeHorizonOf(priority) ==
   CASE priority = "immediate" -> "0-30 days"
     [] priority = "short_term" -> "1-3 months"
     [] priority = "medium_term" -> "3-6 months"

\* the recommendations are those of the insights, one each and in order,
\* with the priority of the severity and the timeline of that priority
PrioritiesMirrored(plan) ==
   /\ Len(plan) = Len(report_insights)
   /\ \A i \in 1..Len(plan) :
         /\ plan[i].priority = PriorityOf(report_insights[i].severity)
         /\ plan[i].timeline = TimeHorizonOf(plan[i].priority)

\* C13: the recommendation generate_recommendations makes of an insight has
\* priority IMMEDIATE for CRITICAL, SHORT_TERM for HIGH and MEDIUM and
\* MEDIUM_TERM for LOW, and its timeline is the one of that priority
\* ('0-30 days', '1-3 months', '3-6 months').
C13_PriorityAndTimeline ==
   report_pc = "done" =>
      PrioritiesMirrored(report.action_plan) /\ PrioritiesMirrored(report.exported_action_plan)

(***************************************************************************)
(* Properties of the risk engines                                          *)
(***************************************************************************)

Severe(insight) == insight.severity \in {"critical", "high"}

\* the risk is the one the specification derives from the insight
DerivedFrom(risk, insight) ==
   /\ risk.description = insight.finding
   /\ risk.mitigation = insight.action
   /\ risk.severity = insight.severity
   /\ risk.probability = (IF insight.severity = "critical" THEN "High" ELSE "Medium-High")
   /\ risk.time_to_impact = "3-6 months"

\* the risks that come from the KPIs and from no insight
KpiRiskTitles == {"Margin Erosion Risk", "Inventory Obsolescence Risk"}

\* every risk of the list that is no KPI risk derives from a CRITICAL or
\* HIGH insight
NoneFromMediumOrLow(risks) ==
   \A k \in 1..Len(risks) :
      \/ risks[k].title \in KpiRiskTitles
      \/ \E i \in 1..Len(report_insights) :
            Severe(report_insights[i]) /\ DerivedFrom(risks[k], report_insights[i])

\* C14 as stated: every CRITICAL or HIGH insight passed to
\* RiskEngine.identify_risks has a risk derived from it in the returned list
\* (description its finding, mitigation its action, its severity, probability
\* 'High' or 'Medium-High', time_to_impact '3-6 months'), and no risk is
\* derived from a MEDIUM or LOW insight.
C14_EverySevereInsightHasRisk ==
   report_pc = "done" =>
      /\ \A i \in 1..Len(report_insights) :
            Severe(report_insights[i]) =>
               \E k \in 1..Len(report.critical_risks) :
                  DerivedFrom(report.critical_risks[k], report_insights[i])
      /\ NoneFromMediumOrLow(report.critical_risks)

\* the deduplication key of the risk of an insight: the first 50 characters
\* of its title 'Risk: ' + finding, case-insensitive
TitleKey(insight) == Strip(Lower(Take("Risk: " \o insight.finding, 50)))

\* the first CRITICAL or HIGH insight whose risk has the key of insight i
FirstOfKey(i) ==
   CHOOSE j \in 1..i :
      /\ Severe(report_insights[j])
      /\ TitleKey(report_insights[j]) = TitleKey(report_insights[i])
      /\ \A h \in 1..(j - 1) :
            ~(Severe(report_insights[h])
              /\ TitleKey(report_insights[h]) = TitleKey(report_insights[i]))

\* C14 amended: for every CRITICAL or HIGH insight the returned list holds
\* the risk derived from the first CRITICAL or HIGH insight with the same
\* deduplication key, which is the insight itself unless an earlier one
\* shares the first 44 characters of its finding, exactly one risk per key,
\* and no risk is derived from a MEDIUM or LOW insight.
C14_FirstOfEachKeyHasRisk ==
   report_pc = "done" =>
      /\ \A i \in 1..Len(report_insights) :
            Severe(report_insights[i]) =>
               /\ \E k \in 1..Len(report.critical_risks) :
                     DerivedFrom(report.critical_risks[k], report_insights[FirstOfKey(i)])
               /\ Cardinality({k \in 1..Len(report.critical_risks) :
                                  RiskKey(report.critical_risks[k])
                                     = TitleKey(report_insights[i])}) = 1
      /\ NoneFromMediumOrLow(report.critical_risks)

\* two HIGH or CRITICAL insights with different findings and one key went
\* in with a MEDIUM or LOW one nowhere, and one risk came out
C14_Witness ==
   /\ report_pc = "done"
   /\ Len(report_insights) = 2
   /\ Severe(report_insights[1]) /\ Severe(report_insights[2])
   /\ report_insights[1].finding # report_insights[2].finding
   /\ TitleKey(report_insights[1]) = TitleKey(report_insights[2])
   /\ report_results = <<>>
   /\ Len(report.critical_risks) = 1
   /\ DerivedFrom(report.critical_risks[1], report_insights[1])

\* the list holds a KPI risk of this title, severity and time to impact
HasKpiRisk(risks, title, severity, time_to_impact) ==
   \E k \in 1..Len(risks) :
      /\ risks[k].title = title
      /\ risks[k].severity = severity
      /\ risks[k].time_to_impact = time_to_impact

\* some domain's KPIs have this name with a value this test accepts
SomeKpi(name, Test(_)) ==
   \E d \in 1..Len(report_results) :
      /\ name \in DOMAIN report_results[d].value.kpis
      /\ Test(report_results[d].value.kpis[name])

KpiRisksIn(risks) ==
   /\ SomeKpi("net_margin_pct", LAMBDA v : v < 5)
         => HasKpiRisk(risks, "Margin Erosion Risk", "critical", "1-3 months")
   /\ SomeKpi("days_inventory_outstanding", LAMBDA v : v > 90)
         => HasKpiRisk(risks, "Inventory Obsolescence Risk", "high", "3-6 months")

\* C15: identify_risks returns a CRITICAL risk with time_to_impact '1-3
\* months' when some domain's net_margin_pct is below 5 and a HIGH risk with
\* time_to_impact '3-6 months' when some domain's
\* days_inventory_outstanding is above 90, whatever the insights, and this
\* holds for the RiskEngine of engines/risk_engine.py and for the one the
\* engines package exports, which return the same risks.
C15_KpiRisksInBothEngines ==
   report_pc = "done" =>
      /\ KpiRisksIn(report.critical_risks)
      /\ KpiRisksIn(report.exported_risks)
      /\ report.exported_risks = report.critical_risks

(***************************************************************************)
(* Properties of the executive summary                                     *)
(***************************************************************************)

\* the part of the summary an entry belongs to: the lead lines, the KPI
\* lines, the action teaser
PartOf(line) ==
   IF StartsWith(line, "CRITICAL: ") \/ StartsWith(line, "HIGH PRIORITY: ") THEN 1
   ELSE IF StartsWith(line, "IMMEDIATE ACTION: ") THEN 3
   ELSE 2

\* the preview of the action of the first insight
ActionTeaser == "IMMEDIATE ACTION: " \o Take(report_insights[1].action, 100) \o "..."

\* C19: generate_executive_summary returns at most 7 entries, the lead lines
\* before the KPI lines before the action teaser, and whenever the insights
\* are not empty the final entry is the action teaser made of the first
\* insight's action.
C19_SummaryClosesWithTeaser ==
   report_pc # "summary" =>
      LET summary == report.executive_summary
      IN /\ Len(summary) <= 7
         /\ \A i, j \in 1..Len(summary) : i < j => PartOf(summary[i]) <= PartOf(summary[j])
         /\ report_insights # <<>> =>
               Len(summary) > 0 /\ summary[Len(summary)] = ActionTeaser

(***************************************************************************)
(* Properties of the loader                                                *)
(***************************************************************************)

HasCritical(quality_report) ==
   \E k \in 1..Len(quality_report.issues) : quality_report.issues[k].severity = "critical"

\* C16: in the DataQualityReport validate produced, and still after
\* load_file appended the issues of the cleaner to it, is_usable is false
\* if and only if some issue of the report is CRITICAL, and blocking_issues
\* is exactly the descriptions of the CRITICAL issues of the report.
C16_UsableIffNoCritical ==
   loader_pc \in {"clean", "loaded", "analyzed"} =>
      /\ ~loader_quality_report.is_usable <=> HasCritical(loader_quality_report)
      /\ loader_quality_report.blocking_issues
            = CriticalDescriptions(loader_quality_report.issues)

\* the cleaner's issue was appended to a report with a CRITICAL issue and
\* another that is not CRITICAL
C16_Witness ==
   /\ loader_pc = "loaded"
   /\ ~loader_quality_report.is_usable
   /\ Len(loader_quality_report.blocking_issues) = 1
   /\ \E k \in 1..Len(loader_quality_report.issues) :
         /\ loader_quality_report.issues[k].issue_type = "duplicate"
         /\ loader_quality_report.issues[k].severity = "medium"
   /\ \E k \in 1..Len(loader_quality_report.issues) :
         loader_quality_report.issues[k].severity = "high"

\* a report without CRITICAL issues is usable after the cleaner's issue was
\* appended
UsableAfterCleaning ==
   /\ loader_pc = "loaded"
   /\ loader_quality_report.is_usable
   /\ Len(loader_quality_report.issues) >= 2

\* the place of a stage in the trace, 0 if it was not invoked
PlaceOf(stage) ==
   IF InSeq(stage, loader_trace)
   THEN CHOOSE k \in 1..Len(loader_trace) : loader_trace[k] = stage
   ELSE 0

\* C17: when the analyzer is invoked on a record set, detect, validate,
\* clean and normalize have been invoked, in this order, and have completed.
C17_StagesInOrder ==
   InSeq("analyze", loader_trace) =>
      /\ 0 < PlaceOf("detect")
      /\ PlaceOf("detect") < PlaceOf("validate")
      /\ PlaceOf("validate") < PlaceOf("clean")
      /\ PlaceOf("clean") < PlaceOf("normalize")
      /\ PlaceOf("normalize") < PlaceOf("analyze")

(***************************************************************************)
(* Properties of the analyzers on optional columns                         *)
(***************************************************************************)

\* C18: analyze() of each of the five analyzers returns an AnalysisResult
\* without raising on every record set that has the required canonical
\* fields of the domain, whatever optional columns it has and however many
\* rows, so that a heuristic whose columns are absent stops no other.
C18_AnalyzeNeverRaises ==
   /\ pc # "raised"
   /\ \A k \in 1..idx : \E r \in 1..Len(all_results) : all_results[r].key = data_frames[k].key

(***************************************************************************)
(* Properties of the executive summary of analyze_multi_file               *)
(***************************************************************************)

\* the headline KPIs and the start of the line of each
HeadlineLines ==
   <<<<"total_revenue", "Total Revenue: ">>, <<"net_margin_pct", "Net Margin: ">>,
     <<"revenue_growth", "Revenue Growth: ">>, <<"total_stock_value", "Inventory Value: ">>,
     <<"days_inventory_outstanding", "Days Inventory: ">>>>

\* C20: in analyze_multi_file, whenever the KPI map of an enabled domain has
\* total_revenue, net_margin_pct, revenue_growth, total_stock_value or
\* days_inventory_outstanding, the executive_summary returned has the
\* headline line of that KPI, unless the limit of 7 entries cut it.
C20_HeadlineKpisInSummary ==
   (pc = "returned" /\ enabled_domains # <<>>) =>
      \A d \in 1..Len(all_kpis), h \in 1..Len(HeadlineLines) :
         HeadlineLines[h][1] \in DOMAIN all_kpis[d].value =>
            \/ \E k \in 1..Len(result[1].executive_summary) :
                  StartsWith(result[1].executive_summary[k], HeadlineLines[h][2])
            \/ Len(result[1].executive_summary) = 7

(***************************************************************************)
(* Properties of the schema detector                                       *)
(***************************************************************************)

\* the synonym at a place of the table
SynonymAt(p) == COLUMN_MAPPINGS[p[1]][2][p[2]]

\* some synonym of the table is the name; is in the name as a whole word;
\* has at most 4 characters and starts or ends the name
ExactSomewhere(col_lower) == \E p \in MappingPlaces : col_lower = SynonymAt(p)

WordSomewhere(col_lower) == \E p \in MappingPlaces : WordSearch(col_lower, SynonymAt(p))

\* the canonical fields that list the name as a synonym
FieldsListing(col_lower) ==
   {COLUMN_MAPPINGS[p[1]][1] : p \in {q \in MappingPlaces : col_lower = SynonymAt(q)}}

\* C21: _map_column applies the three kinds of match in priority order over
\* the whole table: a name equal to some synonym is mapped with confidence
\* 1.0 to a field that lists it, a whole-word match (0.9) is returned only
\* when no synonym is equal to the name, and a prefix/suffix match (0.8)
\* only when neither of the other kinds matches.
C21_MatchKindsInPriorityOrder ==
   Len(schema_matches) >= 1 =>
      \A i \in 1..Len(schema_matches[1].column_mappings) :
         LET m == schema_matches[1].column_mappings[i]
             col_lower == ReplaceSpaceDash(Lower(m.column_name))
         IN /\ ExactSomewhere(col_lower) =>
                  m.confidence = 10 /\ m.expected_field \in FieldsListing(col_lower)
            /\ m.confidence = 9 => ~ExactSomewhere(col_lower)
            /\ m.confidence = 8 => ~ExactSomewhere(col_lower) /\ ~WordSomewhere(col_lower)

\* C22: in the SchemaMatch create_schema_match returns at most one raw
\* column is mapped to each canonical field: a later column that would map
\* to a field an earlier column has claimed gets no ColumnMapping.
C22_OneColumnPerField ==
   Len(schema_matches) >= 1 =>
      \A i, j \in 1..Len(schema_matches[1].column_mappings) :
         i # j => schema_matches[1].column_mappings[i].expected_field
                     # schema_matches[1].column_mappings[j].expected_field

\* C30: normalize_columns is idempotent: normalizing the normalized frame
\* again leaves its columns as they are.
C30_NormalizeIdempotent == [][schema_pc = "done" => schema_df'.cols = schema_df.cols]_vars

\* the required fields no ColumnMapping of the match names
MissingColumns(schema_match, data_type) ==
   SelectSeq(GetRequiredFields(data_type), LAMBDA f : f \notin MatchedFields(schema_match))

HasMissingColumnIssue(quality_report) ==
   \E k \in 1..Len(quality_report.issues) :
      quality_report.issues[k].issue_type = "missing_column"

\* C23: a record set whose columns are exactly the required canonical
\* fields of its data type gets missing_columns = [] and confidence 1.0
\* from create_schema_match, and after normalize_columns validate reports
\* no missing_column issue and is_usable = true.
C23_RequiredColumnsAccepted ==
   loader_pc = "clean" =>
      /\ MissingColumns(loader_schema_match, loader_data_type) = <<>>
      /\ loader_schema_match.confidence = 100
      /\ ~HasMissingColumnIssue(loader_quality_report)
      /\ loader_quality_report.is_usable

\* the categories of the result have a total above zero
ParetoReturned == pareto_pc = "returned" /\ "error" \notin DOMAIN pareto_result

\* the n largest categories account for at least 80% of the total
Holds80(agg, n) == 100 * HeadSum(agg, n) >= 80 * HeadSum(agg, Len(agg))

\* C24: pareto_analysis returns as items_for_80_pct the smallest N such
\* that the N largest categories by summed value account for at least 80%
\* of the total, capped at the number of categories, whenever the total is
\* not zero.
C24_SmallestCountFor80 ==
   ParetoReturned =>
      LET agg == pareto_result.full_pareto
          n == pareto_result.items_for_80_pct
      IN /\ n \in 1..Len(agg)
         /\ Holds80(agg, n)
         /\ \A k \in 1..(n - 1) : ~Holds80(agg, k)

\* the issues of the checks that follow the duplicate check
RemainingChecks(df, data_type) ==
   analyze_missing_data(df, 1) \o validate_columns(df, data_type, 1) \o validate_values(df, 1)

IsSuffix(tail, seq) ==
   Len(tail) <= Len(seq) /\ SubSeq(seq, Len(seq) - Len(tail) + 1, Len(seq)) = tail

\* C25: validate returns a report for every record set: a check that
\* fails inside, as the duplicate computation does when it raises, is
\* skipped, the remaining checks are run and the report is built.
C25_ValidateAlwaysReports ==
   loader_pc # "validate" =>
      /\ loader_pc = "clean"
      /\ loader_quality_report.total_rows = Len(loader_df.rows)
      /\ IsSuffix(RemainingChecks(loader_df, loader_data_type), loader_quality_report.issues)

\* C27: detect_with_confidence selects the same DataType as
\* detect_data_type for every record set.
C27_SameTypeFromBothDetectors ==
   (loader_trace # <<>> /\ loader_data_type # "") =>
      detect_with_confidence(loader_file)[1] = loader_data_type

\* the five fields of the loader
LoaderFields ==
   <<loader_raw_data, loader_data_type, loader_schema_match, loader_quality_report,
     loader_cleaned_data>>

\* DataLoader.is_usable
loader_is_usable == loader_quality_report # NoQualityReport /\ loader_quality_report.is_usable

\* C29: load_file is all-or-nothing: when the call raised, raw_data,
\* cleaned_data, data_type, schema_match and quality_report are all None and
\* is_usable is false, whatever was loaded before; when it returned, the
\* five are set and describe the file of the call.
C29_LoadIsAllOrNothing ==
   /\ loader_pc = "raised" /\ ~(\E i \in 1..Len(loader_trace) : loader_trace[i] = "clean") =>
         LoaderFields = NothingLoaded /\ ~loader_is_usable
   /\ loader_pc = "loaded" => LoaderFields = Loaded(loader_file)

\* the frame has a column that the detector takes for the period
HasPeriodColumn(df) ==
   df.kind = "table"
   /\ \E k \in 1..Len(df.cols) : MapColumn(df.cols[k], "financial").expected_field = "period"

\* a HIGH insight that reports the drop of the revenue or of the sales
ReportsDrop(insight) ==
   /\ insight.severity = "high"
   /\ StartsWith(insight.finding, "Revenue dropped") \/ StartsWith(insight.finding, "Sales dropped")

\* C26: for a financial or sales record set that passes the gate, has a
\* period column under any name the detector accepts, and whose latest
\* period is more than 10% below the prior one, the insights of its domain
\* in the returned result include a HIGH insight that reports the drop.
C26_DropIsReported ==
   Returned =>
      \A i \in 1..Len(data_frames) :
         (/\ data_frames[i].key \in {"financial", "sales"}
          /\ Outcome[data_frames[i]].enabled
          /\ HasPeriodColumn(data_frames[i].df)
          /\ FallingFacts \subseteq data_frames[i].df.facts) =>
            \E k \in 1..Len(result[1].insights_by_category) :
               /\ result[1].insights_by_category[k].key = data_frames[i].key
               /\ \E j \in 1..Len(result[1].insights_by_category[k].value) :
                     ReportsDrop(result[1].insights_by_category[k].value[j])

\* the entries of a dict in the opposite order
Reversed(entries) == [i \in 1..Len(entries) |-> entries[Len(entries) + 1 - i]]

\* the (finding, severity, category) of the insights
InsightSet(insights_in) ==
   {<<insights_in[i].finding, insights_in[i].severity, insights_in[i].category>> :
       i \in 1..Len(insights_in)}

\* C28: the result of analyze_multi_file does not depend on the order in
\* which the domains are processed: the same domains are enabled, the KPI
\* map of each domain is the same, and the same set of insights (finding,
\* severity, category) is left by the deduplication.
C28_OrderIndependent ==
   (LoopDone /\ pc \in {"recommend", "assemble", "returned", "raised"}) =>
      Let(LoopOver(Reversed(data_frames), 1), LAMBDA others :
         /\ SeqToSet(enabled_domains) = Keys(others)
         /\ \A k \in 1..Len(others) :
               \E j \in 1..Len(all_kpis) :
                  all_kpis[j].key = others[k].key /\ all_kpis[j].value = others[k].value.kpis
         /\ InsightSet(insights) = InsightSet(GenerateInsights(others)))

====
